---- MODULE Spec2Model ----
(***************************************************************************)
(* LiteVFS: the in-process lock state machine (locks.rs), the page cache   *)
(* (pager.rs), the per-database state with its commit and sync paths       *)
(* (database.rs) and the handle-level locking around a sync (vfs.rs).      *)
(***************************************************************************)
EXTENDS Integers, Naturals, Sequences, FiniteSets, TLC

\* ------------------------------------------------------------------ bounds
NumConns == 3
MaxPage == 2        \* page numbers are 1..MaxPage
MaxData == 1        \* page bodies are 0..MaxData
MaxCached == 1      \* litevfs_max_cached_pages is set to 0..MaxCached
MaxCalls == 7       \* a run of one database makes at most MaxCalls calls
MaxXorCalls == 11   \* as MaxCalls, for the runs of SpecXor
NumSyncConns == 2   \* the handles of SpecSync are 1..NumSyncConns
MaxTxid == 2        \* other nodes commit up to txid MaxTxid
MaxSyncCalls == 4   \* a run of SpecSync begins at most MaxSyncCalls calls
MaxLease == 2       \* LFSC hands out the lease ids 1..MaxLease
MaxReqs == 2        \* litevfs_max_reqs_per_query is set to 0..MaxReqs
MaxQueryCalls == 6  \* a run of SpecQuery makes at most MaxQueryCalls calls
NumNames == 2       \* the database names of SpecOpen are 1..NumNames
MaxOpens == 3       \* a run of SpecOpen makes at most MaxOpens calls
MaxCachePage == 3   \* the databases of SpecCache have 1..MaxCachePage pages
MaxFlowTxid == 3    \* other nodes commit up to txid MaxFlowTxid in SpecFlow
MaxSyncerCalls == 5 \* a run of SpecSyncer makes at most MaxSyncerCalls calls
MaxLeaserCalls == 4 \* a run of SpecLeaser makes at most MaxLeaserCalls calls
MaxPrefetch == 1    \* litevfs_max_prefetch_pages is set to 0..MaxPrefetch
MaxPrefetchCalls == 4   \* a run of SpecPrefetch makes this many calls
MaxLockPageCalls == 3   \* a run of SpecLockPage makes this many calls

Conns == 1..NumConns

SyncConns == 1..NumSyncConns

Pages == 1..MaxPage

LeaseIds == 1..MaxLease

\* ------------------------------------------------------------- page bytes
\* A page is modelled by the bytes the code looks at.  Page 1 carries the
\* header field at bytes 28..32 (the commit page count); every other page
\* carries a body out of 0..MaxData.  NoPage stands for "no such file".
NoPage == -1

Contents(n) == IF n = 1 THEN 1..MaxPage ELSE 0..MaxData

\* Option<Checksum>::None in the dirty map, and "no entry in the map"
NoChecksum == -1
NotDirty == -2

\* Option<PageNum>::None (PageNum::new refuses 0)
NoSize == 0

\* the page size every header of the model announces
PageSize == 4096

DEFAULT_MAX_PREFETCH_PAGES == 32

\* ltx::PageNum::lock_page
lock_page(ps) == (1073741824 \div ps) + 1

\* Database::parse_commit_database on page 1: bytes 28..32
parse_commit_database(data) == data

\* litetx page_checksum(pgno, data): a checksum salted with the page number
\* (one value per (pgno, data) of the model)
CkBase == (IF MaxPage > MaxData THEN MaxPage ELSE MaxData) + 2

page_checksum(n, data) == n * CkBase + data + 1

\* u64 ^ u64
RECURSIVE Xor(_, _)
Xor(a, b) ==
    IF a = 0 THEN b
    ELSE IF b = 0 THEN a
    ELSE (((a % 2) + (b % 2)) % 2) + (2 * Xor(a \div 2, b \div 2))

\* sqlite_vfs::ffi::SQLITE_IOERR
SQLITE_IOERR == 10

\* lib.rs LITEVFS_IOERR_POS_MISMATCH = SQLITE_IOERR | (0x504F53 << 8); the
\* shifted value has no bit below 2^8, so that the bitwise or is a sum
LITEVFS_IOERR_POS_MISMATCH == SQLITE_IOERR + (5263187 * 256)

\* the code of the sqlite_vfs::CodeError an io::Error carries, 0 for none
code_error(err) ==
    IF err = "PosMismatch" THEN LITEVFS_IOERR_POS_MISMATCH ELSE 0

\* Option<Pos>::None (TXID 0 is reserved)
NullPos == [txid |-> 0, checksum |-> 0]

\* ---------------------------------------------------------------- LockKind
\* sqlite_vfs::LockKind, ordered None < Shared < Reserved < Pending < Exclusive
LkNone == 0
LkShared == 1
LkReserved == 2
LkPending == 3
LkExclusive == 4

LockKinds == {LkNone, LkShared, LkReserved, LkPending, LkExclusive}

\* InnerVfsLock.writer : Option<bool>
WNone == "None"
WReserved == "SomeFalse"
WPending == "SomeTrue"

VARIABLES
    readers,            \* InnerVfsLock.readers
    writer,             \* InnerVfsLock.writer
    state,              \* ConnLock.state of every connection
    last,               \* the last call made and what it returned
    files,              \* Pager: <root>/<db>/pages/<n>, the cached bytes
    probationary,       \* Pager.lru, probationary segment (LRU first)
    protected,          \* Pager.lru, protected segment (LRU first)
    max_cached_pages,   \* Pager.max_cached_pages
    pos,                \* Database.pos
    committed_db_size,  \* Database.committed_db_size
    current_db_size,    \* Database.current_db_size
    dirty_pages,        \* Database.dirty_pages: page -> pre-edit checksum
    prefetch_pages,     \* Database.prefetch_pages
    prefetch_limit,     \* Database.prefetch_limit
    page_size,          \* Database.page_size: 0 (unknown) or the size
    wal,                \* Database.wal
    journal,            \* the journal file of the database
    lease,              \* Leaser.leases[db]: 0 (none) or the lease id
    lfscPages,          \* LFSC: the pages of the database at lfscPos
    lfscPos,            \* LFSC: the position of the database
    lfscCommit,         \* LFSC: the size in pages of the database at lfscPos
    lfscLog,            \* LFSC: the pages each transaction changed, by txid
    syncPos,            \* Syncer: Db.position
    changes,            \* Syncer: Db.changes
    due,                \* Syncer: Db.needs_sync(now), the period has elapsed
    bg,                 \* Syncer: the request of the background sync in flight
    pc,                 \* every handle's position inside lock() or a pragma
    cur_pages_per_query,    \* LiteDatabaseHandle.cur_pages_per_query
    max_pages_per_query,    \* LiteDatabaseHandle.max_pages_per_query
    databases,          \* DatabaseManager.databases: the Database of a name
    pos_file,           \* the names whose `pos` file is on the disk
    handles,            \* the handles open() has returned, in order
    created,            \* the number of Database instances made so far
    refresh,            \* Leaser::run: where the refresher is, with its lease
    calls               \* the number of calls made on the database

lockVars == <<readers, writer, state>>

pagerVars == <<files, probationary, protected, max_cached_pages>>

dbVars == <<pos, committed_db_size, current_db_size, dirty_pages,
            prefetch_pages, prefetch_limit, page_size, wal>>

envVars == <<journal, lease, lfscPages, lfscPos, lfscCommit, lfscLog>>

syncVars == <<syncPos, changes, due, bg>>

queryVars == <<cur_pages_per_query, max_pages_per_query>>

mgrVars == <<databases, pos_file, handles, created>>

leaserVars == <<refresh>>

\* what a step inside lock() or a pragma leaves alone besides the database
frozen == <<calls, queryVars, mgrVars, leaserVars>>

vars == <<readers, writer, state, last, files, probationary, protected,
          max_cached_pages, pos, committed_db_size, current_db_size,
          dirty_pages, prefetch_pages, prefetch_limit, page_size, wal,
          journal, lease, lfscPages, lfscPos, lfscCommit, lfscLog, syncPos,
          changes, due, bg, pc, cur_pages_per_query, max_pages_per_query,
          databases, pos_file, handles, created, refresh, calls>>

\* ------------------------------------------------------------ locks.rs
\* InnerVfsLock::transition(from, to), on a lock value [readers, writer];
\* the result carries the new lock value and the returned LockKind.
\* a release that leaves the readers counter as it was
transitionNone_keeps_readers(l, from) ==
    [readers |-> l.readers,
     writer |-> IF from > LkShared THEN WNone ELSE l.writer,
     kind |-> LkNone]

transitionNone(l, from) ==
    IF from = LkShared
        THEN [readers |-> l.readers - 1, writer |-> l.writer, kind |-> LkNone]
    ELSE IF from > LkShared
        THEN [readers |-> l.readers, writer |-> WNone, kind |-> LkNone]
    ELSE [readers |-> l.readers, writer |-> l.writer, kind |-> LkNone]

\* new readers refused as soon as the writer slot is taken
transitionShared_refuses_reserved(l, from) ==
    IF l.writer # WNone /\ from < LkShared
        THEN [readers |-> l.readers, writer |-> l.writer, kind |-> from]
    ELSE [readers |-> l.readers + 1,
          writer |-> IF from > LkShared THEN WNone ELSE l.writer,
          kind |-> LkShared]

\* new readers admitted while a writer is Pending
transitionShared_ignores_pending(l, from) ==
    [readers |-> l.readers + 1,
     writer |-> IF from > LkShared THEN WNone ELSE l.writer,
     kind |-> LkShared]

transitionShared(l, from) ==
    IF l.writer = WPending /\ from < LkShared
        THEN [readers |-> l.readers, writer |-> l.writer, kind |-> from]
    ELSE [readers |-> l.readers + 1,
          writer |-> IF from > LkShared THEN WNone ELSE l.writer,
          kind |-> LkShared]

\* Reserved granted without a look at the writer slot
transitionReserved_ignores_writer(l, from) ==
    IF from # LkShared
        THEN [readers |-> l.readers, writer |-> l.writer, kind |-> from]
    ELSE [readers |-> l.readers - 1, writer |-> WReserved, kind |-> LkReserved]

transitionReserved(l, from) ==
    IF l.writer # WNone \/ from # LkShared
        THEN [readers |-> l.readers, writer |-> l.writer, kind |-> from]
    ELSE [readers |-> l.readers - 1, writer |-> WReserved, kind |-> LkReserved]

\* Exclusive granted without waiting for the readers to leave
transitionExclusive_ignores_readers(l, from) ==
    IF l.writer # WNone /\ from < LkReserved
        THEN [readers |-> l.readers, writer |-> l.writer, kind |-> from]
    ELSE [readers |-> IF from = LkShared THEN l.readers - 1 ELSE l.readers,
          writer |-> WPending, kind |-> LkExclusive]

transitionExclusive(l, from) ==
    IF l.writer # WNone /\ from < LkReserved
        THEN [readers |-> l.readers, writer |-> l.writer, kind |-> from]
    ELSE LET r == IF from = LkShared THEN l.readers - 1 ELSE l.readers
         IN  [readers |-> r, writer |-> WPending,
              kind |-> IF r > 0 THEN LkPending ELSE LkExclusive]

transition(l, from, to) ==
    IF from = to
        THEN [readers |-> l.readers, writer |-> l.writer, kind |-> from]
    ELSE IF to = LkNone THEN transitionNone(l, from)
    ELSE IF to = LkShared THEN transitionShared(l, from)
    ELSE IF to = LkReserved THEN transitionReserved(l, from)
    ELSE IF to = LkPending
        THEN [readers |-> l.readers, writer |-> l.writer, kind |-> from]
    ELSE transitionExclusive(l, from)

\* The lock value the connections share.
VfsLock == [readers |-> readers, writer |-> writer]

\* ConnLock::acquire(to): the state after the call, and its boolean result.
acquireResult(c, to) == transition(VfsLock, state[c], to)

\* What `last` records of an acquire: the call, its result and the lock
\* as it was when the call was made.
AcquireRecord(op, c, to, res) ==
    [op |-> op, conn |-> c, from |-> state[c], to |-> to,
     ok |-> (res.kind = to),
     readersBefore |-> readers, writerBefore |-> writer,
     stateBefore |-> state]

\* ConnLock::acquire, on the lock alone
DoAcquire(c, to) ==
    LET res == acquireResult(c, to) IN
    /\ readers' = res.readers
    /\ writer' = res.writer
    /\ state' = [state EXCEPT ![c] = res.kind]

\* ConnLock::acquire
Acquire(c, to) ==
    /\ DoAcquire(c, to)
    /\ last' = AcquireRecord("acquire", c, to, acquireResult(c, to))
    /\ UNCHANGED <<pagerVars, dbVars, envVars, syncVars, pc>>

\* Drop for ConnLock: acquire(None); the connection may be opened again
\* (VfsLock::conn_lock gives a ConnLock in state None).
DropConn(c) ==
    LET res == acquireResult(c, LkNone) IN
    /\ readers' = res.readers
    /\ writer' = res.writer
    /\ state' = [state EXCEPT ![c] = LkNone]
    /\ last' = AcquireRecord("drop", c, LkNone, res)
    /\ UNCHANGED <<pagerVars, dbVars, envVars, syncVars, pc>>

\* ------------------------------------------------------------ pager.rs
\* The pager is worked on as a value
\*   [files, prob, prot : the cache; need, rmFail : what the filesystem
\*    does during the call; err : "Ok" or the io::ErrorKind returned;
\*    val : the value returned]
\* need says that statvfs reports less than min_available_space during the
\* call, rmFail that removing an existing file fails during the call.
PagerValue(need, rmFail) ==
    [files |-> files, prob |-> probationary, prot |-> protected,
     need |-> need, rmFail |-> rmFail, err |-> "Ok", val |-> NoPage]

\* `let x = value; F(x)`: the value is computed once and handed on
Bind(x, F(_)) == F(x)

InSeq(s, x) == \E i \in 1..Len(s) : s[i] = x

SeqRemove(s, x) == SelectSeq(s, LAMBDA y : y # x)

\* SegmentedCache::put: a key of the protected segment is refreshed, a key
\* of the probationary segment moves to the protected one, a new key enters
\* the probationary segment.
lruPut(p, n) ==
    IF InSeq(p.prot, n)
        THEN [p EXCEPT !.prot = Append(SeqRemove(p.prot, n), n)]
    ELSE IF InSeq(p.prob, n)
        THEN [p EXCEPT !.prob = SeqRemove(p.prob, n),
                       !.prot = Append(p.prot, n)]
    ELSE [p EXCEPT !.prob = Append(p.prob, n)]

\* SegmentedCache::get: marks the key as recently used
lruGet(p, n) ==
    IF InSeq(p.prot, n)
        THEN [p EXCEPT !.prot = Append(SeqRemove(p.prot, n), n)]
    ELSE IF InSeq(p.prob, n)
        THEN [p EXCEPT !.prob = SeqRemove(p.prob, n),
                       !.prot = Append(p.prot, n)]
    ELSE p

\* SegmentedCache::remove
lruRemove(p, n) ==
    [p EXCEPT !.prob = SeqRemove(p.prob, n), !.prot = SeqRemove(p.prot, n)]

\* SegmentedCache::len
lruLen(p) == Len(p.prob) + Len(p.prot)

\* pager.rs remove_file: Ok(false) when the file is missing
remove_file(p, n) ==
    IF p.files[n] = NoPage THEN [p EXCEPT !.val = FALSE]
    ELSE IF p.rmFail THEN [p EXCEPT !.err = "Other"]
    ELSE [p EXCEPT !.files[n] = NoPage, !.val = TRUE]

\* Pager::has_page
has_page(n) == files[n] # NoPage

\* Pager::remove_lru_page
remove_lru_page(p) ==
    IF p.prob # <<>>
        THEN remove_file([p EXCEPT !.prob = Tail(p.prob)], Head(p.prob))
    ELSE IF p.prot # <<>>
        THEN remove_file([p EXCEPT !.prot = Tail(p.prot)], Head(p.prot))
    ELSE p

\* Pager::reclaim_space
RECURSIVE reclaim_space(_, _)
reclaim_space(p, max_pages) ==
    IF lruLen(p) = 0
       \/ (~p.need /\ (lruLen(p) <= max_pages \/ max_pages = 0))
        THEN p
    ELSE Bind(remove_lru_page(p), LAMBDA q :
            IF q.err # "Ok" THEN q ELSE reclaim_space(q, max_pages))

\* Pager::put_page_inner
put_page_inner(p, n, data, max_pages) ==
    Bind(reclaim_space(p, max_pages), LAMBDA r :
        IF r.err # "Ok" THEN r
        ELSE lruPut([r EXCEPT !.files[n] = data], n))

\* the LRU key dropped and the file left in place
del_page_inner_keeps_file(p, n) ==
    [lruRemove(p, n) EXCEPT !.val = p.files[n] # NoPage]

\* Pager::del_page_inner; val is the bool returned
del_page_inner(p, n) ==
    Bind(remove_file(p, n), LAMBDA r :
        IF r.err # "Ok" THEN r ELSE lruRemove(r, n))

\* Removes the files of `done` and their LRU keys (the entries a directory
\* walk got through).
RemoveAll(p, done) ==
    [p EXCEPT !.files = [n \in Pages |-> IF n \in done THEN NoPage ELSE @[n]],
              !.prob = SelectSeq(@, LAMBDA y : y \notin done),
              !.prot = SelectSeq(@, LAMBDA y : y \notin done)]

\* Pager::truncate_inner(pgno): the cached pages above pgno; when removals
\* fail the walk stops after the entries of `done`.
TruncateTargets(p, pgno) == {n \in Pages : p.files[n] # NoPage /\ n > pgno}

truncate_inner(p, pgno, done) ==
    LET targets == TruncateTargets(p, pgno) IN
    IF p.rmFail /\ targets # {}
        THEN [RemoveAll(p, done) EXCEPT !.err = "Other"]
    ELSE RemoveAll(p, targets)

\* Pager::clear_inner; val is the list of removed page numbers (as a set)
ClearTargets(p) == {n \in Pages : p.files[n] # NoPage}

clear_inner(p, done) ==
    LET targets == ClearTargets(p) IN
    IF p.rmFail /\ targets # {}
        THEN [RemoveAll(p, done) EXCEPT !.err = "Other"]
    ELSE [RemoveAll(p, targets) EXCEPT !.val = targets]

\* Pager::get_page_local; val is the page read
get_page_local(p, n) ==
    IF p.files[n] = NoPage THEN [p EXCEPT !.err = "NotFound"]
    ELSE [lruGet(p, n) EXCEPT !.val = p.files[n]]

\* The pages LFSC sends for a request: those of the request it has.
RECURSIVE LfscPagesFor(_)
LfscPagesFor(req) ==
    IF req = <<>> THEN <<>>
    ELSE IF lfscPages[Head(req)] # NoPage
        THEN <<Head(req)>> \o LfscPagesFor(Tail(req))
    ELSE LfscPagesFor(Tail(req))

\* the loop of get_page_remote that stores every page of the response
RECURSIVE StorePages(_, _, _)
StorePages(p, pgs, max_pages) ==
    IF pgs = <<>> THEN p
    ELSE Bind(put_page_inner(p, Head(pgs), lfscPages[Head(pgs)], max_pages),
              LAMBDA r : IF r.err # "Ok" THEN r
                         ELSE StorePages(r, Tail(pgs), max_pages))

\* Client::get_pages(db, pos, pgnos) as LFSC answers it; rpc is what the
\* request comes to: "ok", "posmismatch" or "transport".  LFSC serves the
\* position it is at and answers EPOSMISMATCH for any other.
lfsc_get_pages(at, rpc) ==
    IF rpc = "transport" THEN "transport"
    ELSE IF rpc = "posmismatch" \/ at # lfscPos THEN "posmismatch"
    ELSE "pages"

\* a position mismatch recovered from in silence: the pages are taken from
\* the position LFSC is at
get_page_remote_recovers(p, at, pgno, prefetch, rpc, max_pages) ==
    IF at = NullPos THEN [p EXCEPT !.err = "NotFound"]
    ELSE IF lfsc_get_pages(at, rpc) = "transport"
        THEN [p EXCEPT !.err = "Other"]
    ELSE Bind(LfscPagesFor(<<pgno>> \o prefetch), LAMBDA pgs :
         Bind(StorePages(p, pgs, max_pages), LAMBDA r :
            IF r.err # "Ok" THEN r
            ELSE IF InSeq(pgs, pgno) THEN [r EXCEPT !.val = lfscPages[pgno]]
            ELSE [r EXCEPT !.err = "NotFound"]))

\* Pager::get_page_remote(pos, pgno, prefetch).  The error "PosMismatch" is
\* io::Error::new(Other, CodeError::new(LITEVFS_IOERR_POS_MISMATCH)).
get_page_remote(p, at, pgno, prefetch, rpc, max_pages) ==
    IF at = NullPos THEN [p EXCEPT !.err = "NotFound"]
    ELSE IF lfsc_get_pages(at, rpc) = "transport"
        THEN [p EXCEPT !.err = "Other"]
    ELSE IF lfsc_get_pages(at, rpc) = "posmismatch"
        THEN [p EXCEPT !.err = "PosMismatch"]
    ELSE Bind(LfscPagesFor(<<pgno>> \o prefetch), LAMBDA pgs :
         Bind(StorePages(p, pgs, max_pages), LAMBDA r :
            IF r.err # "Ok" THEN r
            ELSE IF InSeq(pgs, pgno) THEN [r EXCEPT !.val = lfscPages[pgno]]
            ELSE [r EXCEPT !.err = "NotFound"]))

\* Pager::get_page_inner, with get_page's NotFound -> UnexpectedEof
get_page(p, at, pgno, prefetch, rpc, max_pages) ==
    Bind(get_page_local(p, pgno), LAMBDA l :
        IF l.err = "Ok" THEN l
        ELSE Bind(get_page_remote(p, at, pgno, prefetch, rpc, max_pages),
                  LAMBDA r : IF r.err = "NotFound"
                                 THEN [r EXCEPT !.err = "UnexpectedEof"]
                             ELSE r))

\* Pager::get_page_slice_inner, with get_page_slice's NotFound ->
\* UnexpectedEof; val is the page read, src the PageSource
get_page_slice(p, at, pgno, local_only, prefetch, rpc, max_pages) ==
    Bind(get_page_local(p, pgno), LAMBDA l :
        IF l.err = "Ok" THEN [page |-> l, src |-> "Local"]
        ELSE IF local_only
            THEN [page |-> [p EXCEPT !.err = "WouldBlock"], src |-> "None"]
        ELSE Bind(get_page_remote(p, at, pgno, prefetch, rpc, max_pages),
                  LAMBDA r :
                    [page |-> IF r.err = "NotFound"
                                  THEN [r EXCEPT !.err = "UnexpectedEof"]
                              ELSE r,
                     src |-> "Remote"]))

\* ------------------------------------------------------------ syncer.rs
\* Option<Changes>: None, Some(All), Some(Pages(set))
NoChanges == [kind |-> "None", pages |-> {}]

AllChanges == [kind |-> "All", pages |-> {}]

PageChanges(S) == [kind |-> "Pages", pages |-> S]

\* merge_changes keeping the first of two page sets
merge_changes_keeps_first(c1, c2) ==
    IF c2.kind = "None" THEN c1
    ELSE IF c1.kind = "None" THEN c2
    ELSE IF c1.kind = "All" \/ c2.kind = "All" THEN AllChanges
    ELSE c1

\* syncer.rs merge_changes
merge_changes(c1, c2) ==
    IF c2.kind = "None" THEN c1
    ELSE IF c1.kind = "None" THEN c2
    ELSE IF c1.kind = "All" \/ c2.kind = "All" THEN AllChanges
    ELSE PageChanges(c1.pages \cup c2.pages)

\* The syncer's entry of the database as a value
SyncerValue == [syncPos |-> syncPos, changes |-> changes, due |-> due]

SetSyncer(s) ==
    /\ syncPos' = s.syncPos
    /\ changes' = s.changes
    /\ due' = s.due

\* needs_sync comparing the two positions whatever they are
needs_sync_any_difference(p) == syncPos # p \/ due

\* Syncer::needs_sync(db, p):
\*   db.position.is_some() && db.position != pos, or Db::needs_sync(now)
needs_sync_at(p) == (syncPos # NullPos /\ syncPos # p) \/ due

\* Syncer::needs_sync(db, pos) as Database::needs_sync calls it
needs_sync == needs_sync_at(pos)

\* set_pos ignoring a position that is not newer than the recorded one
set_pos_ignores_equal(p) ==
    IF p = NullPos \/ (syncPos # NullPos /\ syncPos.txid >= p.txid)
        THEN SyncerValue
    ELSE [syncPos |-> p, changes |-> NoChanges, due |-> FALSE]

\* Syncer::set_pos(db, Some(p)): a position older than the syncer's is
\* ignored, any other is taken, the pending changes are dropped and the
\* period starts again
set_pos(p) ==
    IF p = NullPos \/ (syncPos # NullPos /\ syncPos.txid > p.txid)
        THEN SyncerValue
    ELSE [syncPos |-> p, changes |-> NoChanges, due |-> FALSE]

\* put_changes putting prev in the place of what is pending
put_changes_replaces(s, prev) == [s EXCEPT !.changes = prev]

\* Syncer::put_changes
put_changes(s, prev) == [s EXCEPT !.changes = merge_changes(prev, s.changes)]

\* What LFSC answers to a sync request made from position `at`: its own
\* position, and nothing when `at` is that position, the pages of the
\* transactions after `at` when it can still tell them (known), and All
\* otherwise.
LfscChanges(at, known) ==
    IF at = lfscPos THEN NoChanges
    ELSE IF known /\ at # NullPos /\ at.txid < lfscPos.txid
        THEN PageChanges(UNION {lfscLog[t] : t \in (at.txid + 1)..lfscPos.txid})
    ELSE AllChanges

\* Syncer::sync_one after the response [pos, changes] came
sync_one(resp) ==
    IF resp.pos.txid >= syncPos.txid
        THEN [syncPos |-> resp.pos,
              changes |-> merge_changes(resp.changes, changes),
              due |-> FALSE]
    ELSE SyncerValue

\* ------------------------------------------------------------- leaser.rs
\* get_lease answering without a look at the map
get_lease_always_ok == [err |-> "Ok", id |-> lease]

\* Leaser::get_lease: the id of the lease in the map, or PermissionDenied
get_lease ==
    IF lease = 0 THEN [err |-> "PermissionDenied", id |-> 0]
    ELSE [err |-> "Ok", id |-> lease]

\* --------------------------------------------------------- database.rs
RECURSIVE SortedSeq(_)
SortedSeq(S) ==
    IF S = {} THEN <<>>
    ELSE LET m == CHOOSE x \in S : \A y \in S : x <= y
         IN  <<m>> \o SortedSeq(S \ {m})

\* the keys of Database.dirty_pages
DirtySet == {n \in Pages : dirty_pages[n] # NotDirty}

NoDirtyPages == [n \in Pages |-> NotDirty]

SetPager(p) ==
    /\ files' = p.files
    /\ probationary' = p.prob
    /\ protected' = p.prot

\* Database::prefetch_pages(pgno): the stored hint without pgno, when pgno
\* is part of it
prefetch_for(pgno) ==
    IF pgno \in prefetch_pages
        THEN SortedSeq(prefetch_pages \ {pgno}) ELSE <<>>

\* bytes 18 and 19 left as the page has them
read_versions_as_stored(number) == <<>>

\* Database::read_at on a buffer that covers the write and read version of
\* the header (bytes 18 and 19 of page 1): both are set to 1 when the
\* database is in WAL mode; <<>> stands for bytes left as the page has them
read_versions(number) == IF number = 1 /\ wal THEN <<1, 1>> ELSE <<>>

\* Database::read_at.  kind is "header" for a read inside the first 100
\* bytes that covers bytes 28..32, "page" for a read of the whole page n.
\* cand is what sqlite::prefetch_candidates finds in the bytes read: <<>>
\* for None, <<S>> for Some(S).
\* `last` records the page read, the error, the code it carries, what LFSC
\* answered ("none" when it was not asked) and the bytes 18, 19 returned.
ReadAt(kind, n, local_only, rpc, need, rmFail, cand) ==
    LET number == IF kind = "header" THEN 1 ELSE n
        unaligned == kind = "page" /\ n # 1 /\ page_size = NoSize
        answer == IF files[number] # NoPage \/ local_only \/ pos = NullPos
                      THEN "none"
                  ELSE lfsc_get_pages(pos, rpc)
    IN
    /\ IF unaligned
           THEN /\ last' = [op |-> "read_at", page |-> number,
                            err |-> "Other", code |-> 0, lfsc |-> "none",
                            versions |-> <<>>]
                /\ UNCHANGED <<files, probationary, protected,
                               prefetch_pages, committed_db_size>>
       ELSE Bind(get_page_slice(PagerValue(need, rmFail), pos, number,
                                local_only, prefetch_for(number), rpc,
                                max_cached_pages).page,
                 LAMBDA r :
            /\ SetPager(r)
            /\ last' = [op |-> "read_at", page |-> number, err |-> r.err,
                        code |-> code_error(r.err), lfsc |-> answer,
                        versions |-> IF r.err = "Ok"
                                         THEN read_versions(number)
                                     ELSE <<>>]
            /\ prefetch_pages' =
                 IF r.err = "Ok" /\ kind = "page" /\ page_size # NoSize
                    /\ cand # <<>>
                     THEN {c \in cand[1] : r.files[c] = NoPage}
                     ELSE prefetch_pages
            /\ committed_db_size' =
                 IF r.err = "Ok" /\ number = 1 /\ 1 \notin DirtySet
                     THEN parse_commit_database(r.val)
                     ELSE committed_db_size)
    /\ UNCHANGED <<lockVars, max_cached_pages, pos, current_db_size,
                   dirty_pages, prefetch_limit, page_size, wal, envVars,
                   syncVars>>

\* write_at: the pre-edit checksum of the page, None for a page beyond the
\* committed size and for a page nobody has (UnexpectedEof); g is what
\* get_page returned
orig_checksum(n, beyond, g) ==
    IF beyond \/ g.err # "Ok" THEN NoChecksum ELSE page_checksum(n, g.val)

\* the check for WAL mode left out
write_unsupported_never == FALSE

\* write_at: `if self.wal { return Err(Unsupported) }`
write_unsupported == wal

\* Database::write_at of one whole page; for page 1 `data` is the commit
\* count of the header written (0 is a header PageNum::new refuses).
WriteAt(n, data, rpc, need, rmFail) ==
    LET hdr == n = 1
        ps == IF hdr /\ page_size = NoSize THEN PageSize ELSE page_size
        badHdr == hdr /\ parse_commit_database(data) = 0
        cur == IF hdr /\ ~badHdr THEN parse_commit_database(data)
               ELSE current_db_size
        beyond == committed_db_size # NoSize /\ n > committed_db_size
        early == badHdr \/ get_lease.err # "Ok" \/ write_unsupported
                 \/ ps = NoSize
        earlyErr == IF badHdr THEN "InvalidData"
                    ELSE IF get_lease.err # "Ok" THEN get_lease.err
                    ELSE IF write_unsupported THEN "Unsupported"
                    ELSE "Other"
    IN
    /\ page_size' = ps
    /\ current_db_size' = cur
    /\ IF early
           THEN /\ last' = [op |-> "write_at", page |-> n, err |-> earlyErr]
                /\ UNCHANGED <<files, probationary, protected, dirty_pages>>
       ELSE Bind(IF beyond THEN PagerValue(need, rmFail)
                 ELSE get_page(PagerValue(need, rmFail), pos, n, <<>>, rpc,
                               max_cached_pages),
                 LAMBDA g :
            IF g.err \notin {"Ok", "UnexpectedEof"}
                THEN /\ SetPager(g)
                     /\ last' = [op |-> "write_at", page |-> n, err |-> g.err]
                     /\ UNCHANGED dirty_pages
            ELSE Bind(put_page_inner([g EXCEPT !.err = "Ok"], n, data,
                                     max_cached_pages),
                      LAMBDA w :
                 /\ SetPager(w)
                 /\ last' = [op |-> "write_at", page |-> n, err |-> w.err]
                 /\ dirty_pages' =
                      IF w.err = "Ok" /\ n # lock_page(ps)
                         /\ dirty_pages[n] = NotDirty
                          THEN [dirty_pages EXCEPT
                                   ![n] = orig_checksum(n, beyond, g)]
                          ELSE dirty_pages))
    /\ UNCHANGED <<lockVars, max_cached_pages, pos, committed_db_size,
                   prefetch_pages, prefetch_limit, wal, envVars, syncVars>>

\* Database::truncate(size) with size = k pages
Truncate(k, rmFail, done) ==
    LET p == truncate_inner(PagerValue(FALSE, rmFail), k, done)
        err == IF page_size = NoSize THEN "Other"
               ELSE IF k = 0 THEN "InvalidData"
               ELSE p.err
    IN
    /\ IF page_size = NoSize \/ k = 0
           THEN UNCHANGED <<files, probationary, protected>>
       ELSE SetPager(p)
    /\ last' = [op |-> "truncate", err |-> err]
    /\ UNCHANGED <<lockVars, max_cached_pages, dbVars, envVars, syncVars>>

\* Database::is_journal_header_valid: "Ok" with the comparison, or the
\* error of opening the file or of reading its first 8 bytes.  The journal
\* is "absent", "short" (fewer than 8 bytes), "zero" (8 bytes or more that
\* are not the magic) or "valid" (starts with the magic).
is_journal_header_valid ==
    IF journal = "absent" THEN [err |-> "NotFound", valid |-> FALSE]
    ELSE IF journal = "short" THEN [err |-> "UnexpectedEof", valid |-> FALSE]
    ELSE [err |-> "Ok", valid |-> journal = "valid"]

\* one turn of the checksum loop of commit_journal_inner: the pre-edit
\* checksum of the page, when there is one, is XORed out of the running
\* checksum and the checksum of the page as read is XORed in
checksum_step(checksum, prev, new) ==
    Xor(IF prev # NoChecksum THEN Xor(checksum, prev) ELSE checksum, new)

\* the loop of commit_journal_inner over the dirty pages <= commit, in
\* ascending order: the running checksum and the pages put in the LTX file
RECURSIVE EncodePages(_, _, _, _, _)
EncodePages(p, todo, checksum, ltx, rpc) ==
    IF todo = <<>> THEN [p |-> p, checksum |-> checksum, ltx |-> ltx]
    ELSE Bind(get_page(p, pos, Head(todo), <<>>, rpc, max_cached_pages),
              LAMBDA r :
            IF r.err # "Ok"
                THEN [p |-> r, checksum |-> checksum, ltx |-> ltx]
            ELSE EncodePages(r, Tail(todo),
                             checksum_step(checksum, dirty_pages[Head(todo)],
                                           page_checksum(Head(todo), r.val)),
                             [ltx EXCEPT ![Head(todo)] = r.val], rpc))

\* LFSC takes an LTX file whose pre-apply position is the one it is at
LfscAccepts(rpcTx, txid) ==
    rpcTx = "ok" /\ pos = lfscPos /\ txid = lfscPos.txid + 1

\* Database::commit_journal_inner(txid).  rpc: the page requests, rpcTx: the
\* POST of the LTX file, posFail: removing the LTX file or writing the pos
\* file fails.  The result carries the pager, the error, the new position,
\* what LFSC holds afterwards and the lease id get_lease returned (0 when
\* the call did not get that far).
commit_journal_inner(p, txid, rpc, rpcTx, posFail) ==
    LET commit == current_db_size
        same == [p |-> p, pos |-> pos, lfscPages |-> lfscPages,
                 lfscPos |-> lfscPos, lfscCommit |-> lfscCommit,
                 lfscLog |-> lfscLog, sent |-> FALSE, lease |-> 0]
        held == [same EXCEPT !.lease = get_lease.id]
    IN
    IF current_db_size < committed_db_size
        THEN [same EXCEPT !.p.err = "Other"]
    ELSE IF commit = NoSize THEN [same EXCEPT !.p.err = "Other"]
    ELSE IF get_lease.err # "Ok" THEN [same EXCEPT !.p.err = get_lease.err]
    ELSE IF page_size = NoSize THEN [held EXCEPT !.p.err = "Other"]
    ELSE Bind(EncodePages(p, SortedSeq({n \in DirtySet : n <= commit}),
                          pos.checksum, [n \in Pages |-> NoPage], rpc),
              LAMBDA e :
        IF e.p.err # "Ok" THEN [held EXCEPT !.p = e.p]
        ELSE IF ~LfscAccepts(rpcTx, txid)
            THEN [held EXCEPT !.p = [e.p EXCEPT !.err = "Other"],
                              !.sent = TRUE]
        ELSE [p |-> [e.p EXCEPT !.err = IF posFail THEN "Other" ELSE "Ok"],
              pos |-> [txid |-> txid, checksum |-> e.checksum],
              lfscPages |-> [n \in Pages |->
                  IF e.ltx[n] # NoPage THEN e.ltx[n] ELSE lfscPages[n]],
              lfscPos |-> [txid |-> txid, checksum |-> e.checksum],
              lfscCommit |-> commit,
              lfscLog |-> Append(lfscLog, {n \in Pages : e.ltx[n] # NoPage}),
              sent |-> TRUE, lease |-> get_lease.id])

\* the error branch of commit_journal: del_page for every dirty page, in
\* ascending order, stopping at the first error
RECURSIVE DelPages(_, _)
DelPages(p, todo) ==
    IF todo = <<>> THEN p
    ELSE LET r == del_page_inner(p, Head(todo)) IN
         IF r.err # "Ok" THEN r ELSE DelPages(r, Tail(todo))

\* commit_journal: the transaction id of the commit, pos.txid + 1 or
\* TXID::ONE when there is no position yet
next_txid == pos.txid + 1

\* the committed size left as it was
committed_not_updated == committed_db_size

\* commit_journal after commit_journal_inner returned a position:
\* *self.committed_db_size.lock().unwrap() = self.current_db_size
committed_after_commit == current_db_size

\* a journal operation carried out whatever commit_journal returned
journal_after_any(err, after) == after

\* LiteJournalHandle::write_all_at, set_len and LiteVfs::delete:
\* `commit_journal()?` comes before the operation on the journal file
journal_after(err, after) == IF err = "Ok" THEN after ELSE journal

\* Database::commit_journal; `trigger` is the journal operation that called
\* it and `after` the journal that operation leaves when the call succeeds.
\* leaseLost: while the LTX file is being built, after get_lease returned,
\* the leaser thread fails to refresh the lease and drops it from its map.
\* `last` records the lease id sent with the LTX file (0 when none was sent).
CommitJournal(trigger, after, rpc, rpcTx, need, rmFail, posFail, leaseLost) ==
    LET hdr == is_journal_header_valid
        rec(err, valid, sent, accepted, id) ==
            [op |-> "commit_journal", event |-> trigger, err |-> err,
             valid |-> valid, sent |-> sent, accepted |-> accepted,
             lease |-> id]
    IN
    IF hdr.err # "Ok" THEN
        /\ last' = rec(hdr.err, FALSE, FALSE, FALSE, 0)
        /\ journal' = journal_after(hdr.err, after)
        /\ UNCHANGED <<files, probationary, protected, pos,
                       committed_db_size, dirty_pages, lfscPages, lfscPos,
                       lfscCommit, lfscLog, lease, syncVars>>
    ELSE IF ~hdr.valid THEN
        /\ dirty_pages' = NoDirtyPages
        /\ journal' = journal_after("Ok", after)
        /\ last' = rec("Ok", FALSE, FALSE, FALSE, 0)
        /\ UNCHANGED <<files, probationary, protected, pos,
                       committed_db_size, lfscPages, lfscPos, lfscCommit,
                       lfscLog, lease, syncVars>>
    ELSE Bind(commit_journal_inner(PagerValue(need, rmFail), next_txid, rpc,
                                   rpcTx, posFail),
              LAMBDA c :
        /\ lease' = IF leaseLost /\ c.lease # 0 THEN 0 ELSE lease
        /\ lfscPages' = c.lfscPages
        /\ lfscPos' = c.lfscPos
        /\ lfscCommit' = c.lfscCommit
        /\ lfscLog' = c.lfscLog
        /\ IF c.p.err # "Ok" THEN
              Bind(DelPages([c.p EXCEPT !.err = "Ok"], SortedSeq(DirtySet)),
                   LAMBDA d :
                /\ SetPager(d)
                /\ dirty_pages' =
                     IF d.err # "Ok" THEN dirty_pages ELSE NoDirtyPages
                /\ last' = rec(IF d.err # "Ok" THEN d.err ELSE c.p.err,
                               TRUE, c.sent, c.lfscPos # lfscPos,
                               IF c.sent THEN c.lease ELSE 0)
                /\ journal' = journal_after(c.p.err, after)
                /\ UNCHANGED <<pos, committed_db_size, syncVars>>)
           ELSE
                /\ SetPager(c.p)
                /\ committed_db_size' = committed_after_commit
                /\ dirty_pages' = NoDirtyPages
                /\ pos' = c.pos
                /\ SetSyncer(set_pos(c.pos))
                /\ UNCHANGED bg
                /\ journal' = journal_after("Ok", after)
                /\ last' = rec("Ok", TRUE, TRUE, TRUE, c.lease))

CommitUnchanged ==
    UNCHANGED <<lockVars, max_cached_pages, current_db_size, prefetch_pages,
                prefetch_limit, page_size, wal>>

\* --------------------------------------------- vfs.rs, the journal handle
\* LiteJournalHandle::new: opens the journal, creating it empty
JournalOpen ==
    /\ journal = "absent"
    /\ journal' = "short"
    /\ last' = [op |-> "journal_open", err |-> "Ok"]
    /\ UNCHANGED <<lockVars, pagerVars, dbVars, lease, lfscPages, lfscPos,
                   lfscCommit, lfscLog, syncVars>>

\* LiteJournalHandle::write_all_at(buf, 0) with a journal header that starts
\* with the magic: learns the page size, commits nothing, writes the header
JournalWriteHeader ==
    /\ journal # "absent"
    /\ page_size' = IF page_size = NoSize THEN PageSize ELSE page_size
    /\ journal' = "valid"
    /\ last' = [op |-> "journal_write", event |-> "header", err |-> "Ok"]
    /\ UNCHANGED <<lockVars, pagerVars, pos, committed_db_size,
                   current_db_size, dirty_pages, prefetch_pages,
                   prefetch_limit, wal, lease, lfscPages, lfscPos,
                   lfscCommit, lfscLog, syncVars>>

\* LiteJournalHandle::write_all_at(buf, offset) with offset >= 8 (a page
\* record, the padding of the header sector): nothing but the write, which
\* fills a journal shorter than the offset with zero bytes
JournalWriteRecord ==
    /\ journal # "absent"
    /\ journal' = IF journal = "short" THEN "zero" ELSE journal
    /\ last' = [op |-> "journal_write", event |-> "record", err |-> "Ok"]
    /\ UNCHANGED <<lockVars, pagerVars, dbVars, lease, lfscPages, lfscPos,
                   lfscCommit, lfscLog, syncVars>>

\* LiteJournalHandle::write_all_at(28 zero bytes, 0): with the page size
\* unknown the zero header fails to parse; otherwise commit_journal, then
\* the write
JournalZeroHeader(rpc, rpcTx, need, rmFail, posFail, leaseLost) ==
    /\ journal # "absent"
    /\ IF page_size = NoSize
           THEN /\ last' = [op |-> "journal_zero", event |-> "zero",
                            err |-> "InvalidData"]
                /\ UNCHANGED <<files, probationary, protected, pos,
                               committed_db_size, dirty_pages, lfscPages,
                               lfscPos, lfscCommit, lfscLog, journal, lease,
                               syncVars>>
       ELSE CommitJournal("zero", "zero", rpc, rpcTx, need, rmFail, posFail,
                          leaseLost)
    /\ CommitUnchanged

\* LiteJournalHandle::set_len(size): commit_journal, then the truncation;
\* size is 0 or at least 8 bytes
JournalSetLen(toZero, rpc, rpcTx, need, rmFail, posFail, leaseLost) ==
    /\ journal # "absent"
    /\ CommitJournal("set_len",
                     IF toZero THEN "short"
                     ELSE IF journal = "short" THEN "zero" ELSE journal,
                     rpc, rpcTx, need, rmFail, posFail, leaseLost)
    /\ CommitUnchanged

\* LiteVfs::delete of the journal: commit_journal, then the removal
JournalDelete(rpc, rpcTx, need, rmFail, posFail, leaseLost) ==
    /\ CommitJournal("delete", "absent", rpc, rpcTx, need, rmFail, posFail,
                     leaseLost)
    /\ CommitUnchanged

\* ------------------------------------------------------------- leaser.rs
\* Leaser::acquire_lease, the request to LFSC succeeding with lease `id`
AcquireLease(id) ==
    /\ lease' = id
    /\ last' = [op |-> "acquire_lease", err |-> "Ok"]
    /\ UNCHANGED <<lockVars, pagerVars, dbVars, journal, lfscPages, lfscPos,
                   lfscCommit, lfscLog, syncVars>>

\* Leaser::release_lease, and the refresher dropping a lease it fails to
\* refresh
ReleaseLease ==
    /\ lease # 0
    /\ lease' = 0
    /\ last' = [op |-> "release_lease", err |-> "Ok"]
    /\ UNCHANGED <<lockVars, pagerVars, dbVars, journal, lfscPages, lfscPos,
                   lfscCommit, lfscLog, syncVars>>

\* --------------------------------------------------------------- pragmas
\* pragma litevfs_max_cached_pages = k
SetMaxCachedPages(k) ==
    /\ max_cached_pages # k
    /\ max_cached_pages' = k
    /\ last' = [op |-> "pragma", err |-> "Ok"]
    /\ UNCHANGED <<lockVars, files, probationary, protected, dbVars, envVars,
                   syncVars>>

NoCall == [op |-> "init"]

\* no request of the background sync is in flight
NoRequest == [old |-> NullPos, pos |-> NullPos, changes |-> NoChanges,
              sent |-> FALSE, asked |-> FALSE, answered |-> FALSE]

\* a handle that is not inside lock() or a pragma
Idle == [at |-> "idle", via |-> "none"]

InitLock ==
    /\ readers = 0
    /\ writer = WNone
    /\ state = [c \in Conns |-> LkNone]

\* A database that does not exist yet, opened with Create: Database::new
\* finds no page 1, so the sizes are unknown and nothing is cached.
InitPager ==
    /\ files = [n \in Pages |-> NoPage]
    /\ probationary = <<>>
    /\ protected = <<>>
    /\ max_cached_pages = 0

InitDb ==
    /\ pos = NullPos
    /\ committed_db_size = NoSize
    /\ current_db_size = NoSize
    /\ dirty_pages = [n \in Pages |-> NotDirty]
    /\ prefetch_pages = {}
    /\ prefetch_limit = DEFAULT_MAX_PREFETCH_PAGES
    /\ page_size = NoSize
    /\ wal = FALSE

InitEnv ==
    /\ journal = "absent"
    /\ lease = 0
    /\ lfscPages = [n \in Pages |-> NoPage]
    /\ lfscPos = NullPos
    /\ lfscCommit = NoSize
    /\ lfscLog = <<>>

\* Syncer::open_conn(db, pos) of the first handle, and no handle inside a
\* call
InitSyncer ==
    /\ syncPos = NullPos
    /\ changes = NoChanges
    /\ due = FALSE
    /\ bg = NoRequest
    /\ pc = [c \in Conns |-> Idle]

DEFAULT_MAX_REQS_PER_QUERY == 64

\* LiteDatabaseHandle::new
InitQuery ==
    /\ cur_pages_per_query = [c \in Conns |-> 0]
    /\ max_pages_per_query = [c \in Conns |-> DEFAULT_MAX_REQS_PER_QUERY]

\* the refresher of Leaser::run at the top of its loop, with no lease in
\* hand and no notification waiting in its channel; no release_lease has
\* its request to LFSC in flight
NoRefresh == [at |-> "top", id |-> 0, notes |-> 0, releasing |-> 0]

\* Leaser::new
InitLeaser == refresh = NoRefresh

DbNames == 1..NumNames

\* DatabaseManager::new: the map is empty; no name has a `pos` file
InitManager ==
    /\ databases = [d \in DbNames |-> 0]
    /\ pos_file = [d \in DbNames |-> FALSE]
    /\ handles = <<>>
    /\ created = 0

InitLockOnly ==
    /\ InitLock
    /\ InitPager
    /\ InitDb
    /\ InitEnv
    /\ InitSyncer
    /\ InitQuery
    /\ InitLeaser
    /\ InitManager
    /\ last = NoCall
    /\ calls = 0

NextLock ==
    \/ \E c \in Conns, to \in LockKinds :
            Acquire(c, to) /\ UNCHANGED frozen
    \/ \E c \in Conns : DropConn(c) /\ UNCHANGED frozen

SpecLock == InitLockOnly /\ [][NextLock]_vars

\* ------------------------------------------- a waiting writer (SpecWriter)
\* LiteDatabaseHandle::acquire_exclusive, the inner loop
\* `while !self.lock.acquire(LockKind::Exclusive)`: a handle that came
\* back Pending asks for Exclusive again, and for nothing else.
AcquireExclusiveRetry(c) ==
    /\ state[c] = LkPending
    /\ Acquire(c, LkExclusive)
    /\ UNCHANGED frozen

\* The handles of SpecLock, with a Pending handle kept in its loop.
NextWriter ==
    \/ \E c \in Conns, to \in LockKinds :
            /\ state[c] # LkPending
            /\ Acquire(c, to)
            /\ UNCHANGED frozen
    \/ \E c \in Conns : AcquireExclusiveRetry(c)

\* The loop sleeps a millisecond between two requests and runs again: a
\* request that would be granted is eventually made.
SpecWriter ==
    /\ InitLockOnly
    /\ [][NextWriter]_vars
    /\ \A c \in Conns : WF_vars(AcquireExclusiveRetry(c))

\* ------------------------------------------- one database and its pager
Rpcs == {"ok", "posmismatch", "transport"}

DataValues == 0..(IF MaxPage > MaxData THEN MaxPage ELSE MaxData)

\* What the environment of a call can do matters only when the call gets
\* to it: a request to LFSC can fail only if one is made, a removal can
\* fail only if the cache is under pressure or pages are to be deleted.
Pressure(need) == need \/ max_cached_pages > 0

FetchInputs(n, rpc, need, rmFail) ==
    /\ (rpc # "ok" => (files[n] = NoPage /\ pos # NullPos))
    /\ (need => (files[n] = NoPage \/ lruLen(PagerValue(need, rmFail)) > 0))
    /\ (rmFail => Pressure(need))

CommitInputs(rpc, rpcTx, need, rmFail, posFail, leaseLost) ==
    /\ (rpc # "ok" => \E n \in DirtySet : files[n] = NoPage /\ pos # NullPos)
    /\ (need => \E n \in DirtySet : files[n] = NoPage /\ pos # NullPos)
    /\ (posFail => rpcTx = "ok")
    /\ ((rpcTx # "ok" \/ posFail \/ rmFail \/ rpc # "ok" \/ need
         \/ leaseLost)
            => journal = "valid")
    /\ (leaseLost => (lease # 0 /\ current_db_size # NoSize
                      /\ current_db_size >= committed_db_size))

Init == InitLockOnly

\* one more call, while the run has calls left
Tick ==
    /\ calls < MaxCalls /\ calls' = calls + 1
    /\ UNCHANGED <<pc, queryVars, mgrVars, leaserVars>>

Next ==
    \/ \E n \in Pages, data \in DataValues, rpc \in Rpcs,
          need \in BOOLEAN, rmFail \in BOOLEAN :
            /\ Tick
            /\ (data \in Contents(n) \/ (n = 1 /\ data = 0))
            /\ FetchInputs(n, rpc, need, rmFail)
            /\ WriteAt(n, data, rpc, need, rmFail)
    \/ \E kind \in {"header", "page"}, n \in Pages, local_only \in BOOLEAN,
          rpc \in Rpcs, need \in BOOLEAN, rmFail \in BOOLEAN :
            /\ Tick
            /\ (kind = "header" => n = 1)
            /\ FetchInputs(n, rpc, need, rmFail)
            /\ ((local_only \/ files[n] # NoPage)
                    => (rpc = "ok" /\ ~need /\ ~rmFail))
            /\ ReadAt(kind, n, local_only, rpc, need, rmFail, <<>>)
    \/ \E k \in 0..MaxPage, rmFail \in BOOLEAN, done \in SUBSET Pages :
            /\ Tick
            /\ done \subseteq TruncateTargets(PagerValue(FALSE, rmFail), k)
            /\ (rmFail => done # TruncateTargets(PagerValue(FALSE, rmFail), k))
            /\ (~rmFail => done = {})
            /\ Truncate(k, rmFail, done)
    \/ Tick /\ JournalOpen
    \/ Tick /\ JournalWriteHeader
    \/ Tick /\ JournalWriteRecord
    \/ \E rpc \in Rpcs, rpcTx \in {"ok", "transport"}, need \in BOOLEAN,
          rmFail \in BOOLEAN, posFail \in BOOLEAN, leaseLost \in BOOLEAN :
            /\ Tick
            /\ CommitInputs(rpc, rpcTx, need, rmFail, posFail, leaseLost)
            /\ JournalZeroHeader(rpc, rpcTx, need, rmFail, posFail, leaseLost)
    \/ \E rpc \in Rpcs, rpcTx \in {"ok", "transport"}, need \in BOOLEAN,
          rmFail \in BOOLEAN, posFail \in BOOLEAN, toZero \in BOOLEAN,
          leaseLost \in BOOLEAN :
            /\ Tick
            /\ CommitInputs(rpc, rpcTx, need, rmFail, posFail, leaseLost)
            /\ JournalSetLen(toZero, rpc, rpcTx, need, rmFail, posFail,
                             leaseLost)
    \/ \E rpc \in Rpcs, rpcTx \in {"ok", "transport"}, need \in BOOLEAN,
          rmFail \in BOOLEAN, posFail \in BOOLEAN, leaseLost \in BOOLEAN :
            /\ Tick
            /\ CommitInputs(rpc, rpcTx, need, rmFail, posFail, leaseLost)
            /\ JournalDelete(rpc, rpcTx, need, rmFail, posFail, leaseLost)
    \/ \E id \in LeaseIds : Tick /\ AcquireLease(id)
    \/ Tick /\ ReleaseLease
    \/ \E k \in 0..MaxCached : Tick /\ SetMaxCachedPages(k)

Spec == Init /\ [][Next]_vars

\* ------------------------------------------------ database claims (Spec)
\* the call that just returned was commit_journal
CommitReturned == last'.op = "commit_journal"

\* C1: every page number of the dirty set has a cached copy
\* (Pager::has_page), whatever writes, truncations, reads and reclamations
\* came before.
C1_DirtyPagesCached == \A n \in DirtySet : has_page(n)

\* C2 as stated: when commit_journal finds the valid magic and LFSC takes
\* the LTX file, then on return the dirty set is empty, the committed size
\* is the current size and pos.txid is one more than before.
C2_AcceptedCommitAdvances ==
    [][(CommitReturned /\ last'.valid /\ last'.accepted)
          => /\ dirty_pages' = NoDirtyPages
             /\ committed_db_size' = current_db_size'
             /\ pos'.txid = pos.txid + 1]_vars

\* C2 amended: when commit_journal finds the valid magic and returns Ok,
\* then on return the dirty set is empty, the committed size is the
\* current size and pos.txid is one more than before (1 from no position).
C2_OkCommitAdvances ==
    [][(CommitReturned /\ last'.valid /\ last'.err = "Ok")
          => /\ dirty_pages' = NoDirtyPages
             /\ committed_db_size' = current_db_size'
             /\ pos'.txid = pos.txid + 1]_vars

\* a second commit has returned Ok: one from no position, one from txid 1
C2_Witness ==
    /\ last.op = "commit_journal" /\ last.valid /\ last.err = "Ok"
    /\ pos.txid = 2
    /\ committed_db_size = MaxPage

\* C3: when commit_journal, past the check of the journal magic, returns an
\* error, the dirty set is empty and no page that was dirty before the call
\* is cached.
C3_FailedCommitDiscards ==
    [][(CommitReturned /\ last'.valid /\ last'.err # "Ok")
          => /\ dirty_pages' = NoDirtyPages
             /\ \A n \in DirtySet : files'[n] = NoPage]_vars

\* ------------------------------------- commits that succeed (SpecXor)
\* One writer, from an empty database: it takes the lease, writes pages
\* (several times, growing the database), reads, changes the cache limit,
\* runs short of disk space, and every commit_journal it makes returns Ok
\* having found the journal magic.  No request and no local file operation
\* fails.  As SQLite does, the writer leaves no page in the file beyond the
\* size its header states when it finalises the journal.
TickXor ==
    /\ calls < MaxXorCalls /\ calls' = calls + 1
    /\ UNCHANGED <<pc, queryVars, mgrVars, leaserVars>>

FileTrimmed == \A n \in Pages : n > current_db_size => files[n] = NoPage

CommitSucceeds == last'.err = "Ok" /\ last'.valid

NextXor ==
    \/ TickXor /\ lease = 0 /\ AcquireLease(1)
    \/ TickXor /\ JournalOpen
    \/ TickXor /\ JournalWriteHeader
    \/ \E n \in Pages, data \in DataValues, need \in BOOLEAN :
            /\ TickXor
            /\ data \in Contents(n)
            /\ FetchInputs(n, "ok", need, FALSE)
            /\ WriteAt(n, data, "ok", need, FALSE)
    \/ \E n \in Pages :
            /\ TickXor
            /\ ReadAt("page", n, FALSE, "ok", FALSE, FALSE, <<>>)
    \/ \E k \in 0..MaxCached : TickXor /\ SetMaxCachedPages(k)
    \/ \E k \in 1..MaxPage : TickXor /\ Truncate(k, FALSE, {})
    \/ /\ TickXor
       /\ FileTrimmed
       /\ JournalZeroHeader("ok", "ok", FALSE, FALSE, FALSE, FALSE)
       /\ CommitSucceeds
    \/ \E toZero \in BOOLEAN :
            /\ TickXor
            /\ FileTrimmed
            /\ JournalSetLen(toZero, "ok", "ok", FALSE, FALSE, FALSE, FALSE)
            /\ CommitSucceeds

SpecXor == Init /\ [][NextXor]_vars

\* the XOR of the page checksums of what LFSC holds of pages 1..k
RECURSIVE XorOfPages(_)
XorOfPages(k) ==
    IF k = 0 THEN 0
    ELSE Xor(page_checksum(k, lfscPages[k]), XorOfPages(k - 1))

\* C4: after every commit of a run of successful commits from an empty
\* database, the checksum of pos is the XOR of the page checksums of the
\* committed content of pages 1..commit.
C4_ChecksumIsXorOfPages ==
    (pos # NullPos /\ \A n \in 1..lfscCommit : lfscPages[n] # NoPage)
        => pos.checksum = XorOfPages(lfscCommit)

\* ----------------------------- vfs.rs, the database handles (SpecSync)
\* A handle inside lock() or a pragma is at
\*   "shared", "reserved", "back", "exclusive": the steps of
\*       acquire_exclusive,
\*   "lease": acquire_lease_and_sync before Database::acquire_lease,
\*   "sync": before Database::sync,
\*   "header", "fetch": Database::cache after its sync,
\*   "release": before release_exclusive,
\*   "final": lock() before its closing self.lock.acquire(lock),
\* and got there via "lock" (lock(Shared) that found needs_sync), "lease"
\* (pragma litevfs_acquire_lease) or "cache" (pragma litevfs_cache_db).
At(c, at) == pc[c].at = at

Goto(c, at) == [pc EXCEPT ![c].at = at]

\* acquire_exclusive returning Err: lock() skips the sync and goes to its
\* closing acquire, a pragma returns the error
GiveUp(c) == IF pc[c].via = "lock" THEN Goto(c, "final")
             ELSE [pc EXCEPT ![c] = Idle]

\* what `last` records of a step of a handle inside lock() or a pragma
HandleStep == [op |-> "handle"]

\* the wait loop of acquire_exclusive ends as soon as Pending is reached
exclusive_acquired_when_pending(res) == res.kind >= LkPending

\* acquire_exclusive: `while !self.lock.acquire(LockKind::Exclusive)`
exclusive_acquired(res) == res.kind = LkExclusive

\* LiteDatabaseHandle::lock(lock) that does not sync
Lock(c, to) ==
    /\ At(c, "idle")
    /\ ~(state[c] = LkNone /\ to = LkShared /\ needs_sync)
    /\ DoAcquire(c, to)
    /\ last' = HandleStep
    /\ UNCHANGED <<pagerVars, dbVars, envVars, syncVars, pc>>

\* lock(Shared) from None that finds needs_sync: enters acquire_exclusive
LockSync(c) ==
    /\ At(c, "idle")
    /\ state[c] = LkNone
    /\ needs_sync
    /\ DoAcquire(c, LkShared)
    /\ last' = HandleStep
    /\ pc' = [pc EXCEPT ![c] =
                [at |-> IF acquireResult(c, LkShared).kind = LkShared
                            THEN "reserved" ELSE "shared",
                 via |-> "lock"]]
    /\ UNCHANGED <<pagerVars, dbVars, envVars, syncVars>>

\* pragma litevfs_acquire_lease / litevfs_cache_db: acquire_exclusive
\* refuses a handle that holds a lock and enters its loop otherwise
Pragma(c, via) ==
    /\ At(c, "idle")
    /\ IF state[c] # LkNone
           THEN /\ last' = [op |-> "pragma", conn |-> c, err |-> "Other"]
                /\ UNCHANGED <<lockVars, pc>>
       ELSE /\ DoAcquire(c, LkShared)
            /\ last' = HandleStep
            /\ pc' = [pc EXCEPT ![c] =
                        [at |-> IF acquireResult(c, LkShared).kind = LkShared
                                    THEN "reserved" ELSE "shared",
                         via |-> via]]
    /\ UNCHANGED <<pagerVars, dbVars, envVars, syncVars>>

\* acquire_exclusive, self.lock.acquire(Shared) at the top of its loop; a
\* refusal is followed by check_timeout
ExShared(c, timeout) ==
    /\ At(c, "shared")
    /\ DoAcquire(c, LkShared)
    /\ last' = HandleStep
    /\ pc' = IF acquireResult(c, LkShared).kind = LkShared
                 THEN Goto(c, "reserved")
             ELSE IF timeout THEN GiveUp(c)
             ELSE Goto(c, "shared")
    /\ UNCHANGED <<pagerVars, dbVars, envVars, syncVars>>

\* acquire_exclusive: self.lock.acquire(Reserved)
ExReserved(c) ==
    /\ At(c, "reserved")
    /\ DoAcquire(c, LkReserved)
    /\ last' = HandleStep
    /\ pc' = IF acquireResult(c, LkReserved).kind = LkReserved
                 THEN Goto(c, "exclusive") ELSE Goto(c, "back")
    /\ UNCHANGED <<pagerVars, dbVars, envVars, syncVars>>

\* acquire_exclusive: back to None when Reserved was refused, then
\* check_timeout
ExBack(c, timeout) ==
    /\ At(c, "back")
    /\ DoAcquire(c, LkNone)
    /\ last' = HandleStep
    /\ pc' = IF timeout THEN GiveUp(c) ELSE Goto(c, "shared")
    /\ UNCHANGED <<pagerVars, dbVars, envVars, syncVars>>

\* acquire_exclusive: one turn of the wait for the readers to leave
ExExclusive(c, timeout) ==
    /\ At(c, "exclusive")
    /\ DoAcquire(c, LkExclusive)
    /\ last' = HandleStep
    /\ pc' = IF exclusive_acquired(acquireResult(c, LkExclusive))
                 THEN Goto(c, IF pc[c].via = "lease" THEN "lease" ELSE "sync")
             ELSE IF timeout THEN GiveUp(c)
             ELSE pc
    /\ UNCHANGED <<pagerVars, dbVars, envVars, syncVars>>

\* acquire_lease_and_sync: db.acquire_lease(), ok or not
LeaseStep(c, ok) ==
    /\ At(c, "lease")
    /\ lease' = IF ok THEN 1 ELSE lease
    /\ pc' = Goto(c, IF ok THEN "sync" ELSE "release")
    /\ last' = [op |-> "acquire_lease", conn |-> c,
                err |-> IF ok THEN "Ok" ELSE "Other"]
    /\ UNCHANGED <<lockVars, pagerVars, dbVars, journal, lfscPages, lfscPos,
                   lfscCommit, lfscLog, syncVars>>

\* the first k page numbers of S (Iterator::take over the removed pages)
TakePages(S, k) == {n \in S : Cardinality({m \in S : m < n}) < k}

\* Database::sync, Changes::Pages: del_page for every page number in
\* ascending order; the result carries the pager (with the error, if any),
\* the prefetch set and the committed size
RECURSIVE SyncPages(_, _, _, _)
SyncPages(p, todo, prefetch, committed) ==
    IF todo = <<>>
        THEN [p |-> p, prefetch |-> prefetch, committed |-> committed]
    ELSE Bind(del_page_inner(p, Head(todo)), LAMBDA r :
        IF r.err # "Ok"
            THEN [p |-> r, prefetch |-> prefetch, committed |-> committed]
        ELSE SyncPages(r, Tail(todo),
                       IF r.val /\ Cardinality(prefetch) < prefetch_limit
                           THEN prefetch \cup {Head(todo)} ELSE prefetch,
                       IF Head(todo) = 1 THEN NoSize ELSE committed))

\* Database::sync, the match on the drained changes
sync_apply(ch, rmFail, done) ==
    IF ch.kind = "None"
        THEN [p |-> PagerValue(FALSE, rmFail), prefetch |-> prefetch_pages,
              committed |-> committed_db_size]
    ELSE IF ch.kind = "All"
        THEN Bind(clear_inner(PagerValue(FALSE, rmFail), done), LAMBDA r :
            IF r.err # "Ok"
                THEN [p |-> r, prefetch |-> prefetch_pages,
                      committed |-> committed_db_size]
            ELSE [p |-> r, prefetch |-> TakePages(r.val, prefetch_limit),
                  committed |-> NoSize])
    ELSE SyncPages(PagerValue(FALSE, rmFail), SortedSeq(ch.pages), {},
                   committed_db_size)

\* Database::sync that never gives the drained changes back
sync_put_back_never(s1, perr) == [s1 EXCEPT !.changes = NoChanges]

\* Database::sync, the syncer after get_changes and the removals: the
\* drained changes go back with put_changes when pager.clear or
\* pager.del_page has failed (perr), and stay drained otherwise
sync_put_back(s1, perr) ==
    IF perr # "Ok"
        THEN put_changes([s1 EXCEPT !.changes = NoChanges], s1.changes)
    ELSE [s1 EXCEPT !.changes = NoChanges]

\* Database::sync(force) called by handle c; force is set on the pragma
\* paths.  rpcOk: the request of sync_one gets its answer; known: LFSC can
\* tell the changed pages; rmFail, done: removals fail, after the entries
\* of done; posFail: commit_pos fails.  get_changes waits while the period
\* has elapsed, so the call goes on when it has not.
DbSync(c, rpcOk, known, rmFail, done, posFail) ==
    LET force == pc[c].via # "lock"
        after(err) == IF pc[c].via = "cache" /\ err = "Ok" THEN "header"
                      ELSE "release"
        rec(err, ch, perr) ==
            [op |-> "sync", conn |-> c, force |-> force, err |-> err,
             removal |-> perr,
             kind |-> ch.kind, pages |-> ch.pages,
             removed |-> {n \in Pages : files[n] # NoPage
                                        /\ files'[n] = NoPage},
             moved |-> pos' # pos]
    IN
    /\ At(c, "sync")
    /\ IF force /\ ~rpcOk
           THEN /\ UNCHANGED <<pagerVars, dbVars, syncVars>>
                /\ lease' = IF pc[c].via = "lease" THEN 0 ELSE lease
                /\ pc' = Goto(c, "release")
                /\ last' = rec("Other", NoChanges, "Ok")
       ELSE Bind(IF force
                     THEN sync_one([pos |-> lfscPos,
                                    changes |-> LfscChanges(syncPos, known)])
                 ELSE SyncerValue,
                 LAMBDA s1 :
            /\ ~s1.due
            /\ Bind(sync_apply(s1.changes, rmFail, done), LAMBDA a :
               Bind(IF a.p.err # "Ok" THEN a.p.err
                    ELSE IF s1.syncPos # NullPos /\ posFail THEN "Other"
                    ELSE "Ok",
                    LAMBDA err :
                /\ SetPager(a.p)
                /\ prefetch_pages' = a.prefetch
                /\ committed_db_size' = a.committed
                /\ SetSyncer(sync_put_back(s1, a.p.err))
                /\ pos' = IF err = "Ok" THEN s1.syncPos ELSE pos
                /\ lease' = IF pc[c].via = "lease" /\ err # "Ok"
                                THEN 0 ELSE lease
                /\ pc' = Goto(c, after(err))
                /\ last' = rec(err, s1.changes, a.p.err)
                /\ UNCHANGED <<max_cached_pages, current_db_size,
                               dirty_pages, prefetch_limit, page_size, wal,
                               bg>>)))
    /\ UNCHANGED <<lockVars, journal, lfscPages, lfscPos, lfscCommit, lfscLog>>

\* Database::cache after its sync: the read of the header
CacheHeader(c, rpc) ==
    /\ At(c, "header")
    /\ ReadAt("header", 1, FALSE, rpc, FALSE, FALSE, <<>>)
    /\ pc' = Goto(c, IF last'.err = "Ok" THEN "fetch" ELSE "release")

MAX_MAX_PREFETCH_PAGES == 128

\* Database::cache, the loop over 1..dbsize: a missing page is requested
\* together with the missing pages collected before it when it is the last
\* page or the list is full
RECURSIVE CacheLoop(_, _, _, _, _)
CacheLoop(p, n, dbsize, pgnos, rpc) ==
    IF n > dbsize THEN p
    ELSE IF p.files[n] # NoPage THEN CacheLoop(p, n + 1, dbsize, pgnos, rpc)
    ELSE IF n = dbsize \/ Len(pgnos) = MAX_MAX_PREFETCH_PAGES
        THEN Bind(get_page(p, pos, n, pgnos, rpc, max_cached_pages),
                  LAMBDA r : IF r.err # "Ok" THEN r
                             ELSE CacheLoop(r, n + 1, dbsize, <<>>, rpc))
    ELSE CacheLoop(p, n + 1, dbsize, Append(pgnos, n), rpc)

\* Database::cache after the read of the header
CacheFetch(c, rpc) ==
    /\ At(c, "fetch")
    /\ IF committed_db_size = NoSize
           THEN /\ last' = [op |-> "cache", conn |-> c, err |-> "Other"]
                /\ UNCHANGED pagerVars
       ELSE Bind(CacheLoop(PagerValue(FALSE, FALSE), 1, committed_db_size,
                           <<>>, rpc),
                 LAMBDA r :
            /\ SetPager(r)
            /\ last' = [op |-> "cache", conn |-> c, err |-> r.err]
            /\ UNCHANGED max_cached_pages)
    /\ pc' = Goto(c, "release")
    /\ UNCHANGED <<lockVars, dbVars, envVars, syncVars>>

\* release_exclusive; a pragma returns after it
Release(c) ==
    /\ At(c, "release")
    /\ DoAcquire(c, LkNone)
    /\ last' = HandleStep
    /\ pc' = IF pc[c].via = "lock" THEN Goto(c, "final")
             ELSE [pc EXCEPT ![c] = Idle]
    /\ UNCHANGED <<pagerVars, dbVars, envVars, syncVars>>

\* lock(Shared): the closing self.lock.acquire(lock)
Final(c) ==
    /\ At(c, "final")
    /\ DoAcquire(c, LkShared)
    /\ last' = HandleStep
    /\ pc' = [pc EXCEPT ![c] = Idle]
    /\ UNCHANGED <<pagerVars, dbVars, envVars, syncVars>>

\* a read of page n by a handle that holds at least Shared
Read(c, n, rpc) ==
    /\ At(c, "idle")
    /\ state[c] >= LkShared
    /\ ReadAt("page", n, FALSE, rpc, FALSE, FALSE, <<>>)
    /\ UNCHANGED pc

\* ------------------------------------------------- the world of SpecSync
\* the XOR of the page checksums of pages 1..k of pgs
RECURSIVE XorOver(_, _)
XorOver(pgs, k) ==
    IF k = 0 THEN 0
    ELSE Xor(page_checksum(k, pgs[k]), XorOver(pgs, k - 1))

\* Another node commits a transaction that rewrites page n; a new header
\* resizes the database.
RemotePages(n, data) ==
    [m \in Pages |->
        IF m = n THEN data
        ELSE IF n = 1 /\ m > data THEN NoPage
        ELSE IF n = 1 /\ lfscPages[m] = NoPage THEN 0
        ELSE lfscPages[m]]

RemoteCommitUpTo(n, data, top) ==
    /\ lfscPos.txid < top
    /\ n <= lfscCommit
    /\ data # lfscPages[n]
    /\ lfscPages' = RemotePages(n, data)
    /\ lfscCommit' = IF n = 1 THEN data ELSE lfscCommit
    /\ lfscPos' = [txid |-> lfscPos.txid + 1,
                   checksum |-> XorOver(lfscPages', lfscCommit')]
    /\ lfscLog' = Append(lfscLog,
                         {m \in Pages : lfscPages'[m] # lfscPages[m]
                                        /\ lfscPages'[m] # NoPage})
    /\ last' = [op |-> "remote_commit"]
    /\ UNCHANGED <<lockVars, pagerVars, dbVars, journal, lease, syncVars, pc>>

RemoteCommit(n, data) == RemoteCommitUpTo(n, data, MaxTxid)

\* the sync period of the database elapses
PeriodElapses ==
    /\ ~due
    /\ due' = TRUE
    /\ last' = [op |-> "period"]
    /\ UNCHANGED <<lockVars, pagerVars, dbVars, envVars, syncPos, changes,
                   bg, pc>>

\* Syncer::sync by the background thread: the positions are read and the
\* request is made
BgRequest(known) ==
    /\ due
    /\ ~bg.sent
    /\ bg' = [old |-> syncPos, pos |-> lfscPos,
              changes |-> LfscChanges(syncPos, known), sent |-> TRUE,
              asked |-> TRUE, answered |-> TRUE]
    /\ last' = [op |-> "bg_request"]
    /\ UNCHANGED <<lockVars, pagerVars, dbVars, envVars, syncPos, changes,
                   due, pc>>

\* Syncer::sync merging the reported changes whatever the position is now
bg_answer_always_merges(req) ==
    [syncPos |-> IF req.answered THEN req.pos ELSE NullPos,
     changes |-> merge_changes(IF req.answered THEN req.changes
                               ELSE NoChanges,
                               changes),
     due |-> FALSE]

\* Syncer::sync, the loop over every tracked database once the answer has
\* come: a database that is not in the answer gets (None, None); the
\* changes are merged when the position that was sent for the database is
\* its position now; the position and last_sync are set in every case
bg_answer(req) ==
    [syncPos |-> IF req.answered THEN req.pos ELSE NullPos,
     changes |-> merge_changes(IF req.answered /\ req.asked
                                  /\ req.old = syncPos
                                   THEN req.changes
                               ELSE NoChanges,
                               changes),
     due |-> FALSE]

\* Syncer::sync by the background thread: the answer is merged in, or the
\* request has failed
BgAnswerStep(ok) ==
    /\ bg.sent
    /\ bg' = NoRequest
    /\ IF ok THEN SetSyncer(bg_answer(bg))
       ELSE UNCHANGED <<syncPos, changes, due>>
    /\ last' = [op |-> "bg_answer", ok |-> ok, asked |-> bg.asked,
                answered |-> bg.answered, matched |-> bg.old = syncPos]
    /\ UNCHANGED <<lockVars, pagerVars, dbVars, envVars>>

\* with no handle waiting in get_changes, `self.cvar.notify_all()` wakes
\* nobody
BgAnswer(ok) == BgAnswerStep(ok) /\ UNCHANGED pc

\* The database exists on LFSC at txid 1 with MaxPage pages; Database::new
\* fetched page 1 and took the page size, the sizes and the WAL flag w from
\* it, and the first handle registered the position with the syncer.
InitOpened(w) ==
    /\ InitLock
    /\ files = [n \in Pages |-> IF n = 1 THEN MaxPage ELSE NoPage]
    /\ probationary = <<1>>
    /\ protected = <<>>
    /\ max_cached_pages = 0
    /\ lfscPages = [n \in Pages |-> IF n = 1 THEN MaxPage ELSE 0]
    /\ lfscCommit = MaxPage
    /\ lfscPos = [txid |-> 1, checksum |-> XorOver(lfscPages, MaxPage)]
    /\ lfscLog = <<Pages>>
    /\ pos = lfscPos
    /\ committed_db_size = MaxPage
    /\ current_db_size = MaxPage
    /\ dirty_pages = NoDirtyPages
    /\ prefetch_pages = {}
    /\ prefetch_limit = DEFAULT_MAX_PREFETCH_PAGES
    /\ page_size = PageSize
    /\ wal = w
    /\ journal = "absent"
    /\ lease = 0
    /\ syncPos = pos
    /\ changes = NoChanges
    /\ due = FALSE
    /\ bg = NoRequest
    /\ pc = [c \in Conns |-> Idle]
    /\ InitQuery
    /\ InitLeaser
    /\ InitManager
    /\ last = NoCall
    /\ calls = 0

InitSync == InitOpened(FALSE)

RemovalInputs(rmFail, done) ==
    /\ done \subseteq ClearTargets(PagerValue(FALSE, rmFail))
    /\ rmFail => done # ClearTargets(PagerValue(FALSE, rmFail))
    /\ ~rmFail => done = {}

\* one more call begun by a handle or one more period elapsed, while the
\* run has some left; a call that has begun runs to its end
TickSync ==
    /\ calls < MaxSyncCalls /\ calls' = calls + 1
    /\ UNCHANGED <<queryVars, mgrVars, leaserVars>>

NextSync ==
    \/ \E c \in SyncConns, to \in LockKinds \ {LkPending} :
            TickSync /\ Lock(c, to)
    \/ \E c \in SyncConns : TickSync /\ LockSync(c)
    \/ \E c \in SyncConns, via \in {"lease", "cache"} :
            TickSync /\ Pragma(c, via)
    \/ \E c \in SyncConns, timeout \in BOOLEAN :
            ExShared(c, timeout) /\ UNCHANGED frozen
    \/ \E c \in SyncConns : ExReserved(c) /\ UNCHANGED frozen
    \/ \E c \in SyncConns, timeout \in BOOLEAN :
            ExBack(c, timeout) /\ UNCHANGED frozen
    \/ \E c \in SyncConns, timeout \in BOOLEAN :
            ExExclusive(c, timeout) /\ UNCHANGED frozen
    \/ \E c \in SyncConns, ok \in BOOLEAN :
            LeaseStep(c, ok) /\ UNCHANGED frozen
    \/ \E c \in SyncConns, rpcOk \in BOOLEAN, known \in BOOLEAN,
          rmFail \in BOOLEAN, done \in SUBSET Pages, posFail \in BOOLEAN :
            /\ RemovalInputs(rmFail, done)
            /\ posFail => (rpcOk /\ ~rmFail)
            /\ ~rpcOk => (~rmFail /\ known)
            /\ DbSync(c, rpcOk, known, rmFail, done, posFail)
            /\ UNCHANGED frozen
    \/ \E c \in SyncConns, rpc \in Rpcs :
            CacheHeader(c, rpc) /\ UNCHANGED frozen
    \/ \E c \in SyncConns, rpc \in Rpcs :
            CacheFetch(c, rpc) /\ UNCHANGED frozen
    \/ \E c \in SyncConns : Release(c) /\ UNCHANGED frozen
    \/ \E c \in SyncConns : Final(c) /\ UNCHANGED frozen
    \/ \E c \in SyncConns, n \in Pages, rpc \in {"ok", "transport"} :
            TickSync /\ Read(c, n, rpc)
    \/ \E n \in Pages, data \in DataValues :
            /\ data \in Contents(n)
            /\ RemoteCommit(n, data)
            /\ UNCHANGED frozen
    \/ TickSync /\ PeriodElapses
    \/ \E known \in BOOLEAN : BgRequest(known) /\ UNCHANGED frozen
    \/ \E ok \in BOOLEAN : BgAnswer(ok) /\ UNCHANGED frozen

SpecSync == InitSync /\ [][NextSync]_vars

\* ------------------------------------------ a database in WAL mode (SpecWal)
\* The header of the database LFSC has carries write or read version 2;
\* the database is read (at times with the disk short of space), written
\* to with and without a lease, and its cache limit is changed.
InitWal == InitOpened(TRUE)

NextWal ==
    \/ \E id \in LeaseIds : Tick /\ AcquireLease(id)
    \/ Tick /\ ReleaseLease
    \/ \E n \in Pages, data \in DataValues :
            /\ Tick
            /\ (data \in Contents(n) \/ (n = 1 /\ data = 0))
            /\ WriteAt(n, data, "ok", FALSE, FALSE)
    \/ \E kind \in {"header", "page"}, n \in Pages, rpc \in Rpcs,
          need \in BOOLEAN :
            /\ Tick
            /\ (kind = "header" => n = 1)
            /\ (files[n] # NoPage => (rpc = "ok" /\ ~need))
            /\ ReadAt(kind, n, FALSE, rpc, need, FALSE, <<>>)
    \/ \E k \in 0..MaxCached : Tick /\ SetMaxCachedPages(k)

SpecWal == InitWal /\ [][NextWal]_vars

C16_WitnessNoLease ==
    /\ wal /\ last.op = "write_at" /\ last.err = "PermissionDenied"
    /\ lease = 0

\* page 1 of the database in WAL mode was fetched and read
C16_WitnessRead ==
    /\ wal /\ last.op = "read_at" /\ last.err = "Ok" /\ last.page = 1
    /\ last.lfsc = "pages" /\ last.versions = <<1, 1>>

\* ------------------------------------------------ the cache limit (Spec)
\* C18: with max_cached_pages = K > 0, when a read served from LFSC or a
\* write has stored its pages and returned, at most K pages are resident
\* in the cache
C18_CacheBounded ==
    [][(/\ max_cached_pages > 0
        /\ max_cached_pages' = max_cached_pages
        /\ last'.op \in {"read_at", "write_at"}
        /\ last'.err = "Ok"
        /\ files' # files)
          => Cardinality({n \in Pages : files'[n] # NoPage})
                <= max_cached_pages]_vars

\* C19: whenever the dirty set is empty and both sizes are known, the
\* committed size is at most the current size
C19_CommittedAtMostCurrent ==
    (/\ DirtySet = {}
     /\ committed_db_size # NoSize
     /\ current_db_size # NoSize)
        => committed_db_size <= current_db_size

\* C23: between a write_at of a page and the commit, no read and no write
\* of another page removes or overwrites the cached copy of the page while
\* it is dirty: neither the reclamation of space by a put_page nor the
\* pages a remote fetch brings along touch it
C23_DirtyPagesStay ==
    [][\A n \in Pages :
        (/\ dirty_pages[n] # NotDirty
         /\ dirty_pages'[n] # NotDirty
         /\ last'.op \in {"read_at", "write_at"}
         /\ ~(last'.op = "write_at" /\ last'.page = n))
            => files'[n] = files[n]]_vars

\* ------------------------------------- the prefetch hint (SpecPrefetch)
\* One handle of an open database reads pages in which
\* sqlite::prefetch_candidates finds page numbers, sets the prefetch limit
\* and runs pragma litevfs_acquire_lease, whose forced sync applies what
\* other nodes have committed.

\* the values given to pragma litevfs_max_prefetch_pages
PrefetchValues ==
    (0..MaxPrefetch) \cup {MAX_MAX_PREFETCH_PAGES, MAX_MAX_PREFETCH_PAGES + 1}

\* pragma litevfs_max_prefetch_pages = val
SetMaxPrefetchPages(val) ==
    /\ IF val <= MAX_MAX_PREFETCH_PAGES
           THEN /\ prefetch_limit' = val
                /\ last' = [op |-> "pragma", err |-> "Ok"]
       ELSE /\ last' = [op |-> "pragma", err |-> "InvalidInput"]
            /\ UNCHANGED prefetch_limit
    /\ UNCHANGED <<lockVars, pagerVars, pos, committed_db_size,
                   current_db_size, dirty_pages, prefetch_pages, page_size,
                   wal, envVars, syncVars, pc>>

\* Database::read_at of the whole page n, in which prefetch_candidates
\* finds cand
ReadCandidates(n, rpc, cand) ==
    /\ pc[1] = Idle
    /\ ReadAt("page", n, FALSE, rpc, FALSE, FALSE, cand)
    /\ UNCHANGED pc

TickPrefetch ==
    /\ calls < MaxPrefetchCalls /\ calls' = calls + 1
    /\ UNCHANGED <<queryVars, mgrVars, leaserVars>>

NextPrefetch ==
    \/ \E val \in PrefetchValues : TickPrefetch /\ SetMaxPrefetchPages(val)
    \/ \E n \in Pages, rpc \in {"ok", "transport"},
          cand \in {<<>>} \cup {<<S>> : S \in SUBSET Pages} :
            /\ rpc # "ok" => files[n] = NoPage
            /\ TickPrefetch
            /\ ReadCandidates(n, rpc, cand)
    \/ TickPrefetch /\ Pragma(1, "lease")
    \/ ExReserved(1) /\ UNCHANGED frozen
    \/ ExExclusive(1, FALSE) /\ UNCHANGED frozen
    \/ \E ok \in BOOLEAN : LeaseStep(1, ok) /\ UNCHANGED frozen
    \/ \E rpcOk \in BOOLEAN, known \in BOOLEAN :
            /\ ~rpcOk => known
            /\ DbSync(1, rpcOk, known, FALSE, {}, FALSE)
            /\ UNCHANGED frozen
    \/ Release(1) /\ UNCHANGED frozen
    \/ \E n \in Pages, data \in DataValues :
            /\ data \in Contents(n)
            /\ RemoteCommit(n, data)
            /\ UNCHANGED frozen

SpecPrefetch == InitSync /\ [][NextPrefetch]_vars

\* C36: in every reachable state the stored prefetch hint holds at most
\* prefetch_limit page numbers, whether a read of a page with child
\* pointers or a sync stored it, and prefetch_limit is at most 128.
C36_PrefetchBounded ==
    /\ Cardinality(prefetch_pages) <= prefetch_limit
    /\ prefetch_limit <= MAX_MAX_PREFETCH_PAGES

\* --------------------------------------------- the lock page (SpecLockPage)
\* A database of MaxPage pages with one of the page sizes of PageSizes;
\* besides its pages the handle writes and reads the page at the byte
\* offset 0x40000000, the lock page of that page size.
PageSizes == {512, 4096, 65536}

LockPages == {lock_page(ps) : ps \in PageSizes}

InitLockPage ==
    \E ps \in PageSizes :
        /\ InitLock
        /\ files = [n \in Pages \cup LockPages |->
                      IF n = 1 THEN MaxPage ELSE NoPage]
        /\ probationary = <<1>>
        /\ protected = <<>>
        /\ max_cached_pages = 0
        /\ lfscPages = [n \in Pages \cup LockPages |->
                          IF n = 1 THEN MaxPage
                          ELSE IF n \in Pages THEN 0 ELSE NoPage]
        /\ lfscCommit = MaxPage
        /\ lfscPos = [txid |-> 1, checksum |-> XorOver(lfscPages, MaxPage)]
        /\ lfscLog = <<Pages>>
        /\ pos = lfscPos
        /\ committed_db_size = MaxPage
        /\ current_db_size = MaxPage
        /\ dirty_pages = [n \in Pages \cup LockPages |-> NotDirty]
        /\ prefetch_pages = {}
        /\ prefetch_limit = DEFAULT_MAX_PREFETCH_PAGES
        /\ page_size = ps
        /\ wal = FALSE
        /\ journal = "absent"
        /\ lease = 0
        /\ InitSyncer
        /\ InitQuery
        /\ InitLeaser
        /\ InitManager
        /\ last = NoCall
        /\ calls = 0

TickLockPage ==
    /\ calls < MaxLockPageCalls /\ calls' = calls + 1
    /\ UNCHANGED <<pc, queryVars, mgrVars, leaserVars>>

NextLockPage ==
    \/ TickLockPage /\ lease = 0 /\ AcquireLease(1)
    \/ \E n \in Pages \cup {lock_page(page_size)}, data \in DataValues,
          need \in BOOLEAN :
            /\ TickLockPage
            /\ IF n = 1 THEN data = MaxPage ELSE data \in 0..MaxData
            /\ WriteAt(n, data, "ok", need, FALSE)
    \/ \E n \in Pages \cup {lock_page(page_size)} :
            /\ TickLockPage
            /\ ReadAt("page", n, FALSE, "ok", FALSE, FALSE, <<>>)

SpecLockPage == InitLockPage /\ [][NextLockPage]_vars

\* C38: a write to the lock page, page (0x40000000 / page_size) + 1, is
\* never stored in the page cache and never entered into the dirty set
\* (the pages an LTX file is made of), for every page size.
C38_LockPageNeverStored ==
    /\ ~has_page(lock_page(page_size))
    /\ dirty_pages[lock_page(page_size)] = NotDirty
    /\ \A n \in LockPages : files[n] = NoPage

\* ------------------------------ the request budget of a query (SpecQuery)
MAX_MAX_REQS_PER_QUERY == 1024

\* read_exact_at, `local_only` with `>` in place of `>=`
budget_spent_off_by_one(c) ==
    /\ max_pages_per_query[c] > 0
    /\ cur_pages_per_query[c] > max_pages_per_query[c]

\* read_exact_at, `local_only`: the budget is on and is used up
budget_spent(c) ==
    /\ max_pages_per_query[c] > 0
    /\ cur_pages_per_query[c] >= max_pages_per_query[c]

\* the PageSource that Database::read_at hands back on success
read_source(c, n, rpc, need) ==
    get_page_slice(PagerValue(need, FALSE), pos, n, budget_spent(c),
                   prefetch_for(n), rpc, max_cached_pages).src

\* LiteDatabaseHandle::read_exact_at of page n: only a read that succeeded
\* with PageSource::Remote counts against the budget
ReadExactAt(c, n, rpc, need) ==
    /\ ReadAt("page", n, budget_spent(c), rpc, need, FALSE, <<>>)
    /\ cur_pages_per_query' =
         IF last'.err = "Ok" /\ read_source(c, n, rpc, need) = "Remote"
             THEN [cur_pages_per_query EXCEPT ![c] = @ + 1]
             ELSE cur_pages_per_query
    /\ UNCHANGED <<max_pages_per_query, pc>>

\* LiteDatabaseHandle::lock(lock) that does not sync: lock(None) puts the
\* counter back to 0 before the acquire
LockQuery(c, to) ==
    /\ Lock(c, to)
    /\ cur_pages_per_query' =
         IF to = LkNone THEN [cur_pages_per_query EXCEPT ![c] = 0]
         ELSE cur_pages_per_query
    /\ UNCHANGED max_pages_per_query

\* pragma litevfs_max_reqs_per_query = val
SetMaxReqsPerQuery(c, val) ==
    /\ IF val > MAX_MAX_REQS_PER_QUERY
           THEN /\ last' = [op |-> "pragma", conn |-> c, err |-> "Other"]
                /\ UNCHANGED max_pages_per_query
       ELSE /\ last' = [op |-> "pragma", conn |-> c, err |-> "Ok"]
            /\ max_pages_per_query' =
                 [max_pages_per_query EXCEPT ![c] = val]
    /\ UNCHANGED <<lockVars, pagerVars, dbVars, envVars, syncVars, pc,
                   cur_pages_per_query>>

TickQuery ==
    calls < MaxQueryCalls /\ calls' = calls + 1
    /\ UNCHANGED <<mgrVars, leaserVars>>

NextQuery ==
    \/ \E c \in SyncConns, to \in {LkNone, LkShared} :
            TickQuery /\ LockQuery(c, to)
    \/ \E c \in SyncConns, n \in Pages, rpc \in Rpcs, need \in BOOLEAN :
            /\ TickQuery
            /\ (files[n] # NoPage => (rpc = "ok" /\ ~need))
            /\ ReadExactAt(c, n, rpc, need)
    \/ \E c \in SyncConns,
          val \in (0..MaxReqs) \cup {MAX_MAX_REQS_PER_QUERY + 1} :
            TickQuery /\ SetMaxReqsPerQuery(c, val)

SpecQuery == InitSync /\ [][NextQuery]_vars

\* C17: on a handle whose budget K = max_pages_per_query is positive, once
\* K reads were served from remote since the last lock(None), a read that
\* misses the cache fails with would-block, sends nothing to LFSC and
\* leaves the cache and the counter alone; lock(None) puts the counter
\* back to 0; only a read served from remote counts, and it counts only
\* while the counter is below K, so that a query is served at most K
\* remote reads
C17_QueryBudget ==
    [][\A c \in SyncConns :
        /\ \A n \in Pages, rpc \in Rpcs, need \in BOOLEAN :
             (/\ ReadExactAt(c, n, rpc, need)
              /\ max_pages_per_query[c] > 0
              /\ cur_pages_per_query[c] >= max_pages_per_query[c]
              /\ ~has_page(n))
                => /\ last'.err = "WouldBlock"
                   /\ last'.lfsc = "none"
                   /\ UNCHANGED <<files, probationary, protected,
                                  cur_pages_per_query>>
        /\ LockQuery(c, LkNone) => cur_pages_per_query'[c] = 0
        /\ cur_pages_per_query'[c] > cur_pages_per_query[c]
             => /\ last'.op = "read_at"
                /\ last'.lfsc = "pages"
                /\ cur_pages_per_query'[c] = cur_pages_per_query[c] + 1
                /\ (max_pages_per_query[c] > 0
                      => cur_pages_per_query[c] < max_pages_per_query[c])
        /\ (/\ max_pages_per_query[c] > 0
            /\ max_pages_per_query'[c] = max_pages_per_query[c]
            /\ cur_pages_per_query[c] <= max_pages_per_query[c])
              => cur_pages_per_query'[c] <= max_pages_per_query[c]]_vars

\* a read was refused with would-block on a handle that had used up a
\* budget of MaxReqs remote reads
C17_Witness ==
    /\ last.op = "read_at"
    /\ last.err = "WouldBlock"
    /\ \E c \in SyncConns :
          /\ max_pages_per_query[c] = MaxReqs
          /\ cur_pages_per_query[c] = MaxReqs

\* ------------------------------------- the lease refresher (SpecLeaser)
\* One database, its entry in Leaser.leases (`lease`), the calls of the
\* handles on the leaser and the thread of Leaser::run.  The refresher is
\*   "top": at the top of its loop, before it picks the first lease,
\*   "select": in select!, holding a clone of the lease it picked,
\*   "sent": waiting for LFSC's answer to the refresh of that lease;
\* refresh.notes counts the notifications waiting in its channel and
\* refresh.releasing is the id of the lease a release_lease has taken out
\* of the map and is asking LFSC to delete (0: none).  The handles call
\* the leaser one call at a time; the refresher runs beside them.  LFSC
\* gives every lease it hands out an id no lease in use has.

\* Leaser::notify
notify == [refresh EXCEPT !.notes = @ + 1]

\* the refresher going round its loop (`continue`)
continue == [refresh EXCEPT !.at = "top", !.id = 0]

\* Leaser::run, a refresh that failed: the entry goes whatever it holds
run_refresh_failed_removes_any(entry, id) == 0

\* Leaser::run, a refresh answered Ok:
\*   entry(db).and_modify(|old_lease| *old_lease = lease)
\* of the lease LFSC returns, which carries the id that was refreshed
run_refreshed(entry, id) == IF entry = 0 THEN 0 ELSE id

\* Leaser::run, a refresh that failed:
\*   Some(l) if l.id == lease.id => leases.remove(&db), _ => ()
run_refresh_failed(entry, id) == IF entry = id THEN 0 ELSE entry

\* one more call of a handle, when none is under way
TickLeaser ==
    /\ refresh.releasing = 0
    /\ calls < MaxLeaserCalls /\ calls' = calls + 1
    /\ UNCHANGED <<pc, queryVars, mgrVars>>

\* Leaser::acquire_lease: LFSC grants the lease `id` or refuses
LeaserAcquire(id, ok) ==
    /\ id \notin {lease, refresh.id}
    /\ IF ok THEN AcquireLease(id) /\ refresh' = notify
       ELSE /\ last' = [op |-> "acquire_lease", err |-> "Other"]
            /\ UNCHANGED <<lockVars, pagerVars, dbVars, envVars, syncVars,
                           refresh>>

\* release_lease leaving the entry in the map
release_lease_entry_kept(entry) == entry

\* Leaser::release_lease: `self.leases.lock().unwrap().remove(db)`, before
\* the request to LFSC is made
release_lease_entry(entry) == 0

\* Leaser::release_lease up to its request: the entry is taken out of the
\* map and, if there was one, LFSC is asked to delete the lease; with no
\* entry the call returns Ok at once
LeaserRelease ==
    /\ refresh.releasing = 0
    /\ lease' = release_lease_entry(lease)
    /\ IF lease = 0
           THEN /\ last' = [op |-> "release_lease", err |-> "Ok",
                            sent |-> FALSE]
                /\ UNCHANGED refresh
       ELSE /\ last' = [op |-> "release_request"]
            /\ refresh' = [refresh EXCEPT !.releasing = lease]
    /\ UNCHANGED <<lockVars, pagerVars, dbVars, journal, lfscPages, lfscPos,
                   lfscCommit, lfscLog, syncVars>>

\* Leaser::release_lease from LFSC's answer on: the refresher is notified
\* when the lease was deleted, the error is returned when it was not
LeaserReleased(ok) ==
    /\ refresh.releasing # 0
    /\ refresh' = [IF ok THEN notify ELSE refresh EXCEPT !.releasing = 0]
    /\ last' = [op |-> "release_lease", err |-> IF ok THEN "Ok" ELSE "Other",
                sent |-> TRUE]
    /\ UNCHANGED <<lockVars, pagerVars, dbVars, envVars, syncVars>>

\* Leaser::get_lease
GetLease ==
    /\ last' = [op |-> "get_lease", err |-> get_lease.err,
                id |-> get_lease.id]
    /\ UNCHANGED <<lockVars, pagerVars, dbVars, envVars, syncVars, refresh>>

RefresherStep == [op |-> "run"]

\* Leaser::run, the top of the loop: the lease that expires first is
\* cloned; with no lease the refresher waits in rx.recv() and goes round
RunTop ==
    /\ refresh.at = "top"
    /\ IF lease # 0
           THEN refresh' = [refresh EXCEPT !.at = "select", !.id = lease]
       ELSE /\ refresh.notes > 0
            /\ refresh' = [refresh EXCEPT !.notes = @ - 1]
    /\ last' = RefresherStep
    /\ UNCHANGED <<lockVars, pagerVars, dbVars, envVars, syncVars>>

\* Leaser::run, select!: `recv(rx) -> _ => continue`
RunNotified ==
    /\ refresh.at = "select"
    /\ refresh.notes > 0
    /\ refresh' = [continue EXCEPT !.notes = @ - 1]
    /\ last' = RefresherStep
    /\ UNCHANGED <<lockVars, pagerVars, dbVars, envVars, syncVars>>

\* Leaser::run, select!: `recv(after(wait_for))`; the refresh is sent if
\* the map still has an entry for the database
RunTimer ==
    /\ refresh.at = "select"
    /\ refresh' = IF lease = 0 THEN continue
                  ELSE [refresh EXCEPT !.at = "sent"]
    /\ last' = RefresherStep
    /\ UNCHANGED <<lockVars, pagerVars, dbVars, envVars, syncVars>>

\* Leaser::run: LFSC's answer to the refresh, Ok or not
RunAnswer(ok) ==
    /\ refresh.at = "sent"
    /\ lease' = IF ok THEN run_refreshed(lease, refresh.id)
                ELSE run_refresh_failed(lease, refresh.id)
    /\ refresh' = continue
    /\ last' = [op |-> "refresh", ok |-> ok, id |-> refresh.id,
                entry |-> lease]
    /\ UNCHANGED <<lockVars, pagerVars, dbVars, journal, lfscPages, lfscPos,
                   lfscCommit, lfscLog, syncVars>>

NextLeaser ==
    \/ \E id \in LeaseIds, ok \in BOOLEAN :
            TickLeaser /\ LeaserAcquire(id, ok)
    \/ TickLeaser /\ LeaserRelease
    \/ \E ok \in BOOLEAN :
            LeaserReleased(ok) /\ UNCHANGED <<calls, pc, queryVars, mgrVars>>
    \/ TickLeaser /\ GetLease
    \/ RunTop /\ UNCHANGED <<calls, pc, queryVars, mgrVars>>
    \/ RunNotified /\ UNCHANGED <<calls, pc, queryVars, mgrVars>>
    \/ RunTimer /\ UNCHANGED <<calls, pc, queryVars, mgrVars>>
    \/ \E ok \in BOOLEAN :
            RunAnswer(ok) /\ UNCHANGED <<calls, pc, queryVars, mgrVars>>

SpecLeaser == Init /\ [][NextLeaser]_vars

\* C27: a refresh that succeeds changes the map only for the lease that
\* was refreshed: an entry released meanwhile is not put back, and an
\* entry that holds a lease with another id, acquired meanwhile, stays as
\* it is.
C27_RefreshKeepsNewerLease ==
    (last.op = "refresh" /\ last.ok /\ last.entry # last.id)
        => lease = last.entry

\* C28: a refresh that fails removes the entry only if it still holds the
\* lease id that was being refreshed; an entry with another id stays in
\* the map and get_lease returns that id.
C28_FailedRefreshRemovesOwn ==
    (last.op = "refresh" /\ ~last.ok)
        => /\ lease = (IF last.entry = last.id THEN 0 ELSE last.entry)
           /\ (last.entry \notin {0, last.id}
                   => get_lease = [err |-> "Ok", id |-> last.entry])

\* a refresh has failed while the map held a lease acquired meanwhile
C28_Witness ==
    /\ last.op = "refresh" /\ ~last.ok
    /\ last.entry \notin {0, last.id}
    /\ lease = last.entry

\* a refresh has failed while the map still held the refreshed lease
C28_WitnessRemoved ==
    /\ last.op = "refresh" /\ ~last.ok
    /\ last.entry = last.id
    /\ lease = 0

\* C35: when release_lease returns, whether LFSC deleted the lease or the
\* request failed, the map holds no lease for the database and get_lease
\* fails with PermissionDenied; with no lease in the map release_lease
\* returns Ok and makes no request.
C35_ReleaseRemoves ==
    [][last'.op = "release_lease"
          => /\ lease' = 0
             /\ get_lease'.err = "PermissionDenied"
             /\ last'.sent <=> (lease # 0 \/ refresh.releasing # 0)
             /\ ~last'.sent => last'.err = "Ok"]_vars

\* release_lease has returned the error of LFSC, the lease is gone
C35_Witness ==
    /\ last.op = "release_lease" /\ last.sent /\ last.err # "Ok"
    /\ lease = 0

\* release_lease has returned Ok without a request
C35_WitnessNoLease ==
    /\ last.op = "release_lease" /\ ~last.sent /\ last.err = "Ok"

\* ------------------------------------ the calls of the syncer (SpecSyncer)
\* the positions a caller or LFSC may name
SyncerPositions ==
    {NullPos} \cup [txid : 1..MaxTxid, checksum : 0..1]

\* the values of Option<Changes>
ChangeValues ==
    {NoChanges, AllChanges} \cup {PageChanges(S) : S \in SUBSET Pages}

\* Syncer::set_pos(db, pos)
SetPos(p) ==
    /\ SetSyncer(set_pos(p))
    /\ last' = [op |-> "set_pos", arg |-> p]
    /\ UNCHANGED <<lockVars, pagerVars, dbVars, envVars, bg>>

\* Syncer::get_changes: it waits while the database is due for a sync, then
\* hands out the position and takes the pending changes
GetChanges ==
    /\ ~due
    /\ changes' = NoChanges
    /\ last' = [op |-> "get_changes", pos |-> syncPos, changes |-> changes]
    /\ UNCHANGED <<lockVars, pagerVars, dbVars, envVars, syncPos, due, bg>>

\* Syncer::put_changes(db, prev_changes)
PutChanges(prev) ==
    /\ SetSyncer(put_changes(SyncerValue, prev))
    /\ last' = [op |-> "put_changes", arg |-> prev]
    /\ UNCHANGED <<lockVars, pagerVars, dbVars, envVars, bg>>

\* Syncer::sync_one(db): the request fails, or LFSC answers resp
SyncOne(ok, resp) ==
    /\ IF ok THEN SetSyncer(sync_one(resp))
       ELSE UNCHANGED <<syncPos, changes, due>>
    /\ last' = [op |-> "sync_one", ok |-> ok]
    /\ UNCHANGED <<lockVars, pagerVars, dbVars, envVars, bg>>

\* Syncer::run and Syncer::sync up to the request: the databases that are
\* due go into the request, this one (asked) or only others; LFSC will
\* answer for this database (answered) with resp, or leave it out
BgRequestAny(asked, answered, resp) ==
    /\ ~bg.sent
    /\ asked => due
    /\ bg' = [old |-> syncPos, pos |-> resp.pos, changes |-> resp.changes,
              sent |-> TRUE, asked |-> asked, answered |-> answered]
    /\ last' = [op |-> "bg_request"]
    /\ UNCHANGED <<lockVars, pagerVars, dbVars, envVars, syncPos, changes,
                   due, pc>>

TickSyncer ==
    /\ calls < MaxSyncerCalls /\ calls' = calls + 1
    /\ UNCHANGED <<queryVars, mgrVars, leaserVars>>

NextSyncer ==
    \/ \E p \in SyncerPositions : TickSyncer /\ SetPos(p) /\ UNCHANGED pc
    \/ TickSyncer /\ GetChanges /\ UNCHANGED pc
    \/ \E prev \in ChangeValues \ {NoChanges} :
            TickSyncer /\ PutChanges(prev) /\ UNCHANGED pc
    \/ \E ok \in BOOLEAN, rpos \in SyncerPositions, rch \in ChangeValues :
            /\ ~ok => (rpos = NullPos /\ rch = NoChanges)
            /\ TickSyncer
            /\ SyncOne(ok, [pos |-> rpos, changes |-> rch])
            /\ UNCHANGED pc
    \/ TickSyncer /\ PeriodElapses
    \/ \E asked \in BOOLEAN, answered \in BOOLEAN,
          rpos \in SyncerPositions, rch \in ChangeValues :
            /\ answered => asked
            /\ ~answered => (rpos = NullPos /\ rch = NoChanges)
            /\ TickSyncer
            /\ BgRequestAny(asked, answered, [pos |-> rpos, changes |-> rch])
    \/ \E ok \in BOOLEAN : TickSyncer /\ BgAnswer(ok)

SpecSyncer == Init /\ [][NextSyncer]_vars

\* Database::needs_sync: Syncer::needs_sync(db, self.pos), which reads the
\* entry and changes nothing
NeedsSync ==
    /\ last' = [op |-> "needs_sync", arg |-> pos, ret |-> needs_sync]
    /\ UNCHANGED <<lockVars, pagerVars, dbVars, envVars, syncVars, pc>>

\* an open database none of whose handles is in a call, the background
\* thread of the syncer, and Database::needs_sync
NextNeeds ==
    \/ TickSyncer /\ PeriodElapses
    \/ \E asked \in BOOLEAN, answered \in BOOLEAN,
          rpos \in SyncerPositions, rch \in ChangeValues :
            /\ answered => asked
            /\ ~answered => (rpos = NullPos /\ rch = NoChanges)
            /\ TickSyncer
            /\ BgRequestAny(asked, answered, [pos |-> rpos, changes |-> rch])
    \/ \E ok \in BOOLEAN : TickSyncer /\ BgAnswer(ok)
    \/ TickSyncer /\ NeedsSync

SpecNeeds == InitSync /\ [][NextNeeds]_vars

\* ----------------------------------- waiting in get_changes (SpecWaiter)
\* The handles of SyncConns call Syncer::get_changes while the background
\* thread of the syncer runs. pc[c].at is "idle" outside the call,
\* "gc_checked" when the handle holds the `dbs` mutex and has found the
\* database due, "gc_waiting" inside `self.cvar.wait(dbs)` and "gc_woken"
\* once the wait has ended and the mutex is to be taken again.

\* a background thread that does not take the mutex of `dbs`
dbs_locked_never == FALSE

\* the mutex of `dbs` is held by a handle inside get_changes
dbs_locked == \E c \in SyncConns : pc[c].at = "gc_checked"

\* Condvar::notify_all
notify_all(p) ==
    [c \in DOMAIN p |->
        IF p[c].at = "gc_waiting" THEN [p[c] EXCEPT !.at = "gc_woken"]
        ELSE p[c]]

\* Syncer::get_changes, one turn of `while ...needs_sync(now)` with the
\* mutex in hand: the database is due and the handle goes on to notify and
\* wait, or the position and the pending changes are handed out
GetChangesLoop(c, again) ==
    /\ ~dbs_locked
    /\ IF due
        THEN /\ pc' = [pc EXCEPT ![c].at = "gc_checked"]
             /\ last' = [op |-> "get_changes_wait", conn |-> c,
                         again |-> again]
             /\ UNCHANGED changes
        ELSE /\ pc' = [pc EXCEPT ![c] = Idle]
             /\ changes' = NoChanges
             /\ last' = [op |-> "get_changes", conn |-> c, pos |-> syncPos,
                         changes |-> changes, waited |-> again]
    /\ UNCHANGED <<lockVars, pagerVars, dbVars, envVars, syncPos, due, bg>>

\* Syncer::get_changes is called
GetChangesEnter(c) ==
    /\ pc[c].at = "idle"
    /\ GetChangesLoop(c, FALSE)

\* `self.notify(); dbs = self.cvar.wait(dbs)`: the background thread is
\* told (it may make a request at any time here), and the mutex is given
\* up as the handle starts to wait
GetChangesWait(c) ==
    /\ pc[c].at = "gc_checked"
    /\ pc' = [pc EXCEPT ![c].at = "gc_waiting"]
    /\ last' = [op |-> "cvar_wait", conn |-> c]
    /\ UNCHANGED <<lockVars, pagerVars, dbVars, envVars, syncVars, frozen>>

\* Condvar::wait returns with the mutex and the loop tests again
GetChangesWake(c) ==
    /\ pc[c].at = "gc_woken"
    /\ GetChangesLoop(c, TRUE)
    /\ UNCHANGED frozen

\* Condvar::wait may end without a notification
SpuriousWake(c) ==
    /\ pc[c].at = "gc_waiting"
    /\ pc' = [pc EXCEPT ![c].at = "gc_woken"]
    /\ last' = [op |-> "spurious_wake", conn |-> c]
    /\ UNCHANGED <<lockVars, pagerVars, dbVars, envVars, syncVars>>

\* Syncer::run finds the database due (or only others) and Syncer::sync
\* reads the positions under the mutex and makes the request
BgRequestLocked(asked, answered) ==
    /\ ~dbs_locked
    /\ BgRequestAny(asked, answered,
                    [pos |-> IF answered THEN lfscPos ELSE NullPos,
                     changes |-> IF answered THEN AllChanges
                                 ELSE NoChanges])

\* Syncer::sync after the request: an error returns at `?`; an answer is
\* merged in under the mutex and `self.cvar.notify_all()` is called
BgAnswerNotify(ok) ==
    /\ ok => ~dbs_locked
    /\ BgAnswerStep(ok)
    /\ pc' = IF ok THEN notify_all(pc) ELSE pc

\* Syncer::run, one turn of its loop up to the request, and the rest of it
SyncerRunRequest ==
    \E asked \in BOOLEAN, answered \in BOOLEAN :
        /\ answered => asked
        /\ BgRequestLocked(asked, answered)
        /\ UNCHANGED frozen

SyncerRunAnswer == \E ok \in BOOLEAN : BgAnswerNotify(ok) /\ UNCHANGED frozen

NextWaiter ==
    \/ \E c \in SyncConns : GetChangesEnter(c) /\ UNCHANGED frozen
    \/ \E c \in SyncConns : GetChangesWait(c)
    \/ \E c \in SyncConns : GetChangesWake(c)
    \/ \E c \in SyncConns : SpuriousWake(c) /\ UNCHANGED frozen
    \/ PeriodElapses /\ UNCHANGED frozen
    \/ SyncerRunRequest
    \/ SyncerRunAnswer

\* A handle that holds the mutex goes on to wait, a woken handle gets the
\* mutex again if it is free again and again, and the background thread,
\* told by the waiting handle, keeps making requests that are answered or
\* fail.
SpecWaiter ==
    /\ InitSync
    /\ [][NextWaiter]_vars
    /\ \A c \in SyncConns : WF_vars(GetChangesWait(c))
    /\ \A c \in SyncConns : SF_vars(GetChangesWake(c))
    /\ WF_vars(SyncerRunRequest)
    /\ WF_vars(SyncerRunAnswer)

\* a background request is made / has succeeded
BgRequested == last.op = "bg_request"

BgSucceeded == IF last.op = "bg_answer" THEN last.ok ELSE FALSE

\* handle c has returned from get_changes / has gone to wait once more
Returned(c) == IF last.op = "get_changes" THEN last.conn = c ELSE FALSE

WaitsAgain(c) ==
    IF last.op = "get_changes_wait" THEN last.conn = c /\ last.again
    ELSE FALSE

\* C40 (as stated): a handle waiting in get_changes returns if some
\* background request made afterwards succeeds.
C40_WaiterReturns ==
    \A c \in SyncConns :
        []((pc[c].at = "gc_waiting" /\ <>(BgRequested /\ <>BgSucceeded))
            => <>Returned(c))

\* C40 (amended): every background sync that succeeds wakes every handle
\* that has found the database due in get_changes (none is left between
\* its test and its wait), and a handle waiting when a request made
\* afterwards succeeds tests again: it returns, or the period has elapsed
\* once more and it notifies and waits again.
C40_WaiterWokenAndTestsAgain ==
    /\ [][\A c \in SyncConns :
            (/\ last'.op = "bg_answer" /\ last'.ok
             /\ pc[c].at \in {"gc_checked", "gc_waiting"})
                => pc'[c].at = "gc_woken"]_vars
    /\ \A c \in SyncConns :
        []((pc[c].at = "gc_waiting" /\ <>(BgRequested /\ <>BgSucceeded))
            => <>(Returned(c) \/ WaitsAgain(c)))

\* a handle that waited has returned from get_changes after a successful
\* background sync
C40_Witness ==
    /\ last.op = "get_changes" /\ last.waited
    /\ ~due
    /\ \E c \in SyncConns \ {last.conn} : pc[c].at = "gc_woken"

\* a woken handle found the database due again and waits once more
C40_WitnessAgain ==
    /\ last.op = "get_changes_wait" /\ last.again
    /\ pc[last.conn].at = "gc_checked"

\* merge_changes(c1, c2) applied to two values
MergeChanges(c1, c2) ==
    /\ last' = [op |-> "merge_changes", c1 |-> c1, c2 |-> c2,
                ret |-> merge_changes(c1, c2)]
    /\ UNCHANGED <<lockVars, pagerVars, dbVars, envVars, syncVars, pc>>

NextMerge ==
    \E c1 \in ChangeValues, c2 \in ChangeValues :
        TickSyncer /\ MergeChanges(c1, c2)

SpecMerge == Init /\ [][NextMerge]_vars

\* C34: merge_changes obeys the merge law for all inputs: All merged with
\* anything is All, Pages(a) merged with Pages(b) is Pages(a \cup b), x
\* merged with no changes is x; and so the merge is commutative,
\* associative and idempotent.
C34_MergeLaw ==
    last.op = "merge_changes"
        => /\ (last.c1 = AllChanges \/ last.c2 = AllChanges)
                => last.ret = AllChanges
           /\ (last.c1.kind = "Pages" /\ last.c2.kind = "Pages")
                => last.ret = PageChanges(last.c1.pages \cup last.c2.pages)
           /\ last.c2 = NoChanges => last.ret = last.c1
           /\ last.c1 = NoChanges => last.ret = last.c2
           /\ merge_changes(last.c2, last.c1) = last.ret
           /\ \A c3 \in ChangeValues :
                merge_changes(last.ret, c3)
                    = merge_changes(last.c1, merge_changes(last.c2, c3))
           /\ last.c1 = last.c2 => last.ret = last.c1

\* two sets of pages, neither within the other, have been merged
C34_Witness ==
    /\ last.op = "merge_changes"
    /\ last.c1.kind = "Pages" /\ last.c2.kind = "Pages"
    /\ ~(last.c1.pages \subseteq last.c2.pages)
    /\ ~(last.c2.pages \subseteq last.c1.pages)
    /\ last.ret = PageChanges(last.c1.pages \cup last.c2.pages)

\* C33 as stated: needs_sync(db, pos) returns true exactly when the
\* recorded position differs from pos, the case where exactly one of the
\* two is null included, or the sync period has elapsed since the last
\* sync.
C33_NeedsSyncIffDiffers ==
    last.op = "needs_sync" => (last.ret <=> (syncPos # last.arg \/ due))

\* C33: needs_sync(db, pos) returns true exactly when the recorded
\* position is not null and differs from pos, or the sync period has
\* elapsed since the last sync; with no recorded position the positions
\* are not compared.
C33_NeedsSyncIffKnownDiffers ==
    last.op = "needs_sync"
        => (last.ret <=> ((syncPos # NullPos /\ syncPos # last.arg) \/ due))

\* needs_sync has returned false for a position while none is recorded
C33_Witness ==
    /\ last.op = "needs_sync" /\ ~last.ret
    /\ syncPos = NullPos /\ last.arg # NullPos

\* needs_sync has returned true on the positions alone
C33_WitnessDiffers ==
    /\ last.op = "needs_sync" /\ last.ret /\ ~due
    /\ syncPos # NullPos /\ syncPos # last.arg

\* c has everything of d: d is None, or c is All, or both are page sets
\* and the pages of d are among those of c
Covers(c, d) ==
    \/ d.kind = "None"
    \/ c.kind = "All"
    \/ (c.kind = "Pages" /\ d.kind = "Pages" /\ d.pages \subseteq c.pages)

\* c is c1 and c2 put together, and nothing more
Merged(c1, c2, c) ==
    /\ Covers(c, c1)
    /\ Covers(c, c2)
    /\ c.kind = "None" => (c1.kind = "None" /\ c2.kind = "None")
    /\ c.kind = "All" => (c1.kind = "All" \/ c2.kind = "All")
    /\ c.kind = "Pages" => c.pages \subseteq (c1.pages \cup c2.pages)

\* C24: when the answer of a background sync arrives for a database that
\* was in the request and is in the answer: if the position that was sent
\* is still the recorded position the reported changes are merged into
\* the pending changes, otherwise they are dropped and the pending changes
\* are kept; in both cases the recorded position becomes the reported one
\* and last_sync is stamped
C24_BgAnswerMerges ==
    [][(/\ last'.op = "bg_answer" /\ last'.ok
        /\ bg.asked /\ bg.answered)
          => /\ IF bg.old = syncPos
                    THEN Merged(bg.changes, changes, changes')
                ELSE changes' = changes
             /\ syncPos' = bg.pos
             /\ ~due']_vars

\* an answer has been merged into pending changes, giving two pages
C24_Witness ==
    /\ last.op = "bg_answer" /\ last.ok /\ last.asked /\ last.answered
    /\ last.matched
    /\ changes = PageChanges(Pages)
    /\ syncPos # NullPos

\* an answer came after the position had moved: its changes were dropped
C24_WitnessDropped ==
    /\ last.op = "bg_answer" /\ last.ok /\ last.asked /\ last.answered
    /\ ~last.matched
    /\ changes = PageChanges({1})
    /\ syncPos # NullPos

\* C25: the answer of a background sync leaves the recorded position and
\* the pending changes of a tracked database alone when the database was
\* not in the request or is not in the answer
C25_BgAnswerFrame ==
    [][(/\ last'.op = "bg_answer" /\ last'.ok
        /\ ~(last'.asked /\ last'.answered))
          => UNCHANGED <<syncPos, changes>>]_vars

\* C29: set_pos(db, pos) with a non-null pos puts pos in the place of the
\* recorded position unless the recorded position has a strictly greater
\* txid, and then nothing of the syncer changes; set_pos with a null pos
\* changes nothing
C29_SetPos ==
    [][last'.op = "set_pos"
          => IF last'.arg = NullPos \/ syncPos.txid > last'.arg.txid
                 THEN UNCHANGED <<syncPos, changes, due>>
             ELSE syncPos' = last'.arg]_vars

\* set_pos was called with a position older than the recorded one
C29_Witness ==
    /\ last.op = "set_pos"
    /\ last.arg # NullPos
    /\ syncPos.txid > last.arg.txid

\* set_pos has put its position in the place of the recorded one
C29_WitnessReplaced ==
    /\ last.op = "set_pos"
    /\ syncPos = last.arg
    /\ syncPos.checksum = 1
    /\ changes = NoChanges

\* C30: get_changes hands out the recorded position and all the pending
\* changes and leaves none pending, so that a second get_changes right
\* after it gets no changes; put_changes(prev) merges prev into what is
\* pending, and a get_changes right after it gets changes that cover prev
C30_GetPutChanges ==
    [][/\ last'.op = "get_changes"
            => /\ last'.pos = syncPos
               /\ last'.changes = changes
               /\ changes' = NoChanges
               /\ syncPos' = syncPos
       /\ (last.op = "get_changes" /\ last'.op = "get_changes")
            => last'.changes = NoChanges
       /\ last'.op = "put_changes"
            => /\ Merged(last'.arg, changes, changes')
               /\ syncPos' = syncPos
       /\ (last.op = "put_changes" /\ last'.op = "get_changes")
            => Covers(last'.changes, last.arg)]_vars

\* put_changes has merged a page into pending changes of another page and
\* get_changes has handed out both
C30_Witness ==
    /\ last.op = "get_changes"
    /\ last.changes = PageChanges(Pages)
    /\ changes = NoChanges

\* ------------------------- forced and background syncs at once (SpecFlow)
\* the request of the background sync reaches LFSC only now: the answer in
\* flight is what LFSC has to say at this moment
BgServed(known) ==
    /\ bg.sent
    /\ bg' = [bg EXCEPT !.pos = lfscPos,
                        !.changes = LfscChanges(bg.old, known)]
    /\ bg' # bg
    /\ last' = [op |-> "bg_served"]
    /\ UNCHANGED <<lockVars, pagerVars, dbVars, envVars, syncPos, changes,
                   due, pc>>

\* one handle runs litevfs_cache_db, with its forced sync, while the
\* background thread syncs and other nodes commit
NextFlow ==
    \/ Pragma(1, "cache") /\ UNCHANGED frozen
    \/ ExReserved(1) /\ UNCHANGED frozen
    \/ ExExclusive(1, FALSE) /\ UNCHANGED frozen
    \/ \E rpcOk \in BOOLEAN :
            /\ DbSync(1, rpcOk, TRUE, FALSE, {}, FALSE)
            /\ UNCHANGED frozen
    \/ CacheHeader(1, "ok") /\ UNCHANGED frozen
    \/ CacheFetch(1, "ok") /\ UNCHANGED frozen
    \/ Release(1) /\ UNCHANGED frozen
    \/ \E n \in Pages, data \in DataValues :
            /\ data \in Contents(n)
            /\ RemoteCommitUpTo(n, data, MaxFlowTxid)
            /\ UNCHANGED frozen
    \/ PeriodElapses /\ UNCHANGED frozen
    \/ BgRequest(TRUE) /\ UNCHANGED frozen
    \/ BgServed(TRUE) /\ UNCHANGED frozen
    \/ \E ok \in BOOLEAN : BgAnswer(ok) /\ UNCHANGED frozen

SpecFlow == InitSync /\ [][NextFlow]_vars

\* the pages other nodes changed after position a up to position b
ChangedBetween(a, b) == UNION {lfscLog[t] : t \in (a.txid + 1)..b.txid}

\* C22: while the syncer's recorded position is a newer position of LFSC
\* than the one the Database has applied, every page changed between the
\* two is in the pending changes, or the pending changes are All
C22_NoChangeLost ==
    (/\ pos # NullPos
     /\ syncPos.txid > pos.txid
     /\ syncPos.txid <= lfscPos.txid)
        => Covers(changes, PageChanges(ChangedBetween(pos, syncPos)))

\* ------------------------------------- pragma litevfs_cache_db (SpecCache)
CachePages == 1..MaxCachePage

\* the bytes of page n of a database of dbsize pages: page 1 carries the
\* page count in its header
CachePageOf(n, dbsize) ==
    IF n > dbsize THEN NoPage ELSE IF n = 1 THEN dbsize ELSE 0

\* an open database of dbsize pages at the position of LFSC, with the pages
\* of S in the cache; the committed size is known when page 1 was read
InitCached(dbsize, S, sizeKnown) ==
    /\ InitLock
    /\ files = [n \in CachePages |->
                  IF n \in S THEN CachePageOf(n, dbsize) ELSE NoPage]
    /\ probationary = SortedSeq(S)
    /\ protected = <<>>
    /\ max_cached_pages = 0
    /\ lfscPages = [n \in CachePages |-> CachePageOf(n, dbsize)]
    /\ lfscCommit = dbsize
    /\ lfscPos = [txid |-> 1, checksum |-> XorOver(lfscPages, dbsize)]
    /\ lfscLog = <<1..dbsize>>
    /\ pos = lfscPos
    /\ committed_db_size = IF sizeKnown THEN dbsize ELSE NoSize
    /\ current_db_size = dbsize
    /\ dirty_pages = NoDirtyPages
    /\ prefetch_pages = {}
    /\ prefetch_limit = DEFAULT_MAX_PREFETCH_PAGES
    /\ page_size = PageSize
    /\ wal = FALSE
    /\ journal = "absent"
    /\ lease = 0
    /\ syncPos = pos
    /\ changes = NoChanges
    /\ due = FALSE
    /\ bg = NoRequest
    /\ pc = [c \in Conns |-> Idle]
    /\ InitQuery
    /\ InitLeaser
    /\ InitManager
    /\ last = NoCall
    /\ calls = 0

InitCache ==
    \E dbsize \in CachePages, S \in SUBSET CachePages, sizeKnown \in BOOLEAN :
        /\ S \subseteq 1..dbsize
        /\ sizeKnown => 1 \in S
        /\ InitCached(dbsize, S, sizeKnown)

\* one handle runs the pragma again and again; nothing else goes on
NextCache ==
    \/ Pragma(1, "cache") /\ UNCHANGED frozen
    \/ ExReserved(1) /\ UNCHANGED frozen
    \/ ExExclusive(1, FALSE) /\ UNCHANGED frozen
    \/ \E rpcOk \in BOOLEAN, posFail \in BOOLEAN :
            /\ posFail => rpcOk
            /\ DbSync(1, rpcOk, TRUE, FALSE, {}, posFail)
            /\ UNCHANGED frozen
    \/ \E rpc \in Rpcs : CacheHeader(1, rpc) /\ UNCHANGED frozen
    \/ \E rpc \in Rpcs : CacheFetch(1, rpc) /\ UNCHANGED frozen
    \/ Release(1) /\ UNCHANGED frozen

SpecCache == InitCache /\ [][NextCache]_vars

\* C21: when Database::cache has returned Ok with no cache limit set and
\* LFSC answering every request, every page of 1..committed_db_size is in
\* the cache, whichever pages were cached before the call
C21_CacheComplete ==
    (last.op = "cache" /\ last.err = "Ok" /\ max_cached_pages = 0)
        => \A n \in 1..committed_db_size : has_page(n)

\* ------------------------------------ the database manager (SpecOpen)
OpenAccesses == {"Read", "Write", "Create", "CreateNew"}

\* the outcome of get_database: an error, or the Database it resolved
Resolved(err, db, map, made) ==
    [err |-> err, db |-> db, databases |-> map, created |-> made]

Unresolved(err) == Resolved(err, 0, databases, created)

\* DatabaseManager::get_database without its closing access check.
\* remote is LFSC's answer to pos_map for the name ("err": the call failed,
\* "none": no such database, "some": the database is there); newFail says
\* that Database::new fails
get_database_found(dbname, access, remote, newFail) ==
    IF databases[dbname] # 0
        THEN IF access = "CreateNew" THEN Unresolved("AlreadyExists")
             ELSE Resolved("Ok", databases[dbname], databases, created)
    ELSE IF pos_file[dbname]
        THEN IF access = "CreateNew" THEN Unresolved("AlreadyExists")
             ELSE IF newFail THEN Unresolved("Other")
             ELSE Resolved("Ok", created + 1, databases, created + 1)
    ELSE IF remote = "err" THEN Unresolved("Other")
    ELSE IF remote = "some" /\ access = "CreateNew"
        THEN Unresolved("AlreadyExists")
    ELSE IF remote = "none" /\ access \in {"Read", "Write"}
        THEN Unresolved("NotFound")
    ELSE IF newFail THEN Unresolved("Other")
    ELSE Resolved("Ok", created + 1,
                  [databases EXCEPT ![dbname] = created + 1], created + 1)

\* DatabaseManager::get_database; refused says that the Database is in WAL
\* mode or has auto_vacuum, which forbids every access but Read
get_database(dbname, access, remote, newFail, refused) ==
    Bind(get_database_found(dbname, access, remote, newFail), LAMBDA r :
        IF r.err = "Ok" /\ access # "Read" /\ refused
            THEN [r EXCEPT !.err = "Unsupported", !.db = 0]
        ELSE r)

\* LiteVfs::open of the main database of a name or of its journal
Open(dbname, kind, access, remote, newFail, refused) ==
    Bind(get_database(dbname, access, remote, newFail, refused), LAMBDA r :
        /\ databases' = r.databases
        /\ created' = r.created
        /\ handles' = IF r.err = "Ok"
                          THEN Append(handles, [name |-> dbname,
                                                kind |-> kind, db |-> r.db])
                      ELSE handles
        /\ last' = [op |-> "open", err |-> r.err]
        /\ UNCHANGED <<pos_file, lockVars, pagerVars, dbVars, envVars,
                       syncVars, pc, queryVars>>)

\* LiteVfs::exists of the journal of a name
Exists(dbname, remote, newFail) ==
    Bind(get_database(dbname, "Read", remote, newFail, FALSE), LAMBDA r :
        /\ databases' = r.databases
        /\ created' = r.created
        /\ last' = [op |-> "exists", err |-> r.err]
        /\ UNCHANGED <<pos_file, handles, lockVars, pagerVars, dbVars,
                       envVars, syncVars, pc, queryVars>>)

\* a process starts with an empty map; an earlier process may have left
\* the `pos` file of a database it had committed or synced
InitOpen ==
    /\ InitLock
    /\ InitPager
    /\ InitDb
    /\ InitEnv
    /\ InitSyncer
    /\ InitQuery
    /\ InitLeaser
    /\ databases = [d \in DbNames |-> 0]
    /\ pos_file \in [DbNames -> BOOLEAN]
    /\ handles = <<>>
    /\ created = 0
    /\ last = NoCall
    /\ calls = 0

TickOpen ==
    calls < MaxOpens /\ calls' = calls + 1 /\ UNCHANGED leaserVars

NextOpen ==
    \/ \E dbname \in DbNames, kind \in {"MainDb", "MainJournal"},
          access \in OpenAccesses, remote \in {"err", "none", "some"},
          newFail \in BOOLEAN, refused \in BOOLEAN :
            TickOpen /\ Open(dbname, kind, access, remote, newFail, refused)
    \/ \E dbname \in DbNames, remote \in {"err", "none", "some"},
          newFail \in BOOLEAN :
            TickOpen /\ Exists(dbname, remote, newFail)

SpecOpen == InitOpen /\ [][NextOpen]_vars

\* C20: all the handles opened on one database name, main-database and
\* journal handles alike, refer to one and the same Database
C20_OneDatabasePerName ==
    \A i, j \in DOMAIN handles :
        handles[i].name = handles[j].name => handles[i].db = handles[j].db

\* --------------------------------------------------- sync claims (SpecSync)
\* the call that just returned was Database::sync
SyncReturned == last.op = "sync"

\* C9: whenever Database::sync has removed cached pages or moved
\* Database.pos, the handle that called it holds Exclusive and every other
\* handle holds no lock at all (none is Shared, readers = 0): no handle
\* between its lock(Shared) and its lock(None) sees the cache or pos change.
C9_SyncUnderExclusive ==
    (SyncReturned /\ (last.removed # {} \/ last.moved))
        => /\ state[last.conn] = LkExclusive
           /\ \A d \in Conns \ {last.conn} : state[d] = LkNone
           /\ readers = 0

\* a sync begun by lock(Shared) has dropped cached pages and moved pos
C9_Witness ==
    /\ SyncReturned /\ ~last.force /\ last.err = "Ok"
    /\ last.removed # {} /\ last.moved
    /\ state[last.conn] = LkExclusive

\* C10: when Database::sync has applied the changes it drained and returned
\* Ok, then for All no page of the database is cached, for Pages(S) no page
\* of S is cached, and the committed size is forgotten when page 1 was
\* among the invalidated pages (always so for All).
C10_SyncInvalidates ==
    (SyncReturned /\ last.err = "Ok")
        => /\ last.kind = "All"
               => /\ \A n \in Pages : ~has_page(n)
                  /\ committed_db_size = NoSize
           /\ last.kind = "Pages"
               => /\ \A n \in last.pages : ~has_page(n)
                  /\ 1 \in last.pages => committed_db_size = NoSize

\* a sync has applied Pages(S) with page 1 in S, removing cached pages
C10_Witness ==
    /\ SyncReturned /\ last.err = "Ok" /\ last.kind = "Pages"
    /\ 1 \in last.pages /\ last.removed # {}
    /\ committed_db_size = NoSize

\* a sync has applied All, removing every cached page
C10_WitnessAll ==
    /\ SyncReturned /\ last.err = "Ok" /\ last.kind = "All"
    /\ Cardinality(last.removed) = MaxPage

\* C26: whenever acquire_exclusive fails (its one-second timeout has run
\* out), the handle's lock is back at None: the handle keeps no Shared,
\* Reserved or Pending state, and so not the writer slot either.  The step
\* that fails is the one that leaves the loop of acquire_exclusive for the
\* end of the pragma ("idle") or for the closing acquire of lock()
\* ("final").
C26_FailedExclusiveReleases ==
    [][\A c \in SyncConns :
        (/\ pc[c].at \in {"shared", "back", "exclusive"}
         /\ pc'[c].at \in {"idle", "final"})
            => state'[c] = LkNone]_vars

\* C11: Database.pos changes only in a commit_journal that returns Ok and
\* in Database.sync, and across a Database.sync the txid of pos never
\* decreases (a position never becomes null or an older one), whatever the
\* interleaving of forced syncs, background syncs and commits.
C11_PosOnlyAdvances ==
    [][/\ pos' # pos
           => \/ last'.op = "sync"
              \/ (last'.op = "commit_journal" /\ last'.err = "Ok")
       /\ last'.op = "sync" => pos'.txid >= pos.txid]_vars

\* the changes the last Database::sync drained from the syncer
Drained == [kind |-> last.kind, pages |-> last.pages]

\* C31 as stated: whenever Database::sync returns an error after having
\* drained changes from the syncer (a page deletion, the clearing of the
\* cache or the saving of the new position failed), the drained changes
\* are back among the pending changes of the syncer and Database.pos is
\* unchanged.
C31_FailedSyncPutsBack ==
    (SyncReturned /\ last.err # "Ok" /\ last.kind # "None")
        => (Covers(changes, Drained) /\ ~last.moved)

\* C31: Database.pos is unchanged by a Database::sync that returns an
\* error after having drained changes.  When a page deletion or the
\* clearing of the cache failed, the drained changes are back among the
\* pending changes.  When only the saving of the position failed, they
\* are not put back: they have been applied, no page of them is cached.
C31_FailedSyncKeepsOrApplies ==
    (SyncReturned /\ last.err # "Ok" /\ last.kind # "None")
        => /\ ~last.moved
           /\ last.removal # "Ok" => Covers(changes, Drained)
           /\ last.removal = "Ok"
               => /\ last.kind = "All" => \A n \in Pages : ~has_page(n)
                  /\ last.kind = "Pages"
                       => \A n \in last.pages : ~has_page(n)

\* a sync has failed in a page deletion after it drained a set of pages
C31_Witness ==
    /\ SyncReturned /\ last.err # "Ok" /\ last.kind = "Pages"
    /\ last.removal # "Ok"
    /\ Covers(changes, Drained)

\* a sync has failed in the saving of the position after it drained and
\* applied changes
C31_WitnessPos ==
    /\ SyncReturned /\ last.err # "Ok" /\ last.kind # "None"
    /\ last.removal = "Ok"
    /\ ~Covers(changes, Drained)

C12_WitnessSent ==
    /\ last.op = "commit_journal" /\ last.sent /\ last.err = "Ok"
    /\ last.lease = MaxLease /\ lease = MaxLease

\* the map lost the lease while the LTX file was on its way
C12_WitnessLost ==
    /\ last.op = "commit_journal" /\ last.sent /\ last.lease # 0
    /\ lease = 0

\* a write_at was refused for want of a lease
C12_WitnessWrite ==
    last.op = "write_at" /\ last.err = "PermissionDenied" /\ lease = 0

\* C13: whenever commit_journal runs on a journal that does not begin with
\* the 8-byte magic (any other prefix of any length, all zeros included),
\* it returns Ok, empties the dirty set, leaves pos and the committed size
\* unchanged and sends nothing to LFSC.
C13_InvalidJournalRollsBack ==
    [][(last'.op = "commit_journal" /\ journal \in {"short", "zero"})
          => /\ last'.err = "Ok"
             /\ dirty_pages' = NoDirtyPages
             /\ ~last'.sent
             /\ UNCHANGED <<pos, committed_db_size, lfscPages, lfscPos,
                            lfscCommit, lfscLog>>]_vars

\* C14: commit_journal is invoked on exactly three journal events, a write
\* of exactly 28 zero bytes at offset 0, any set_len and the deletion of the
\* journal, and on no other journal write.
C14_CommitTriggers ==
    [][(last'.op \in {"commit_journal", "journal_write", "journal_zero"})
          => (last'.event \in {"zero", "set_len", "delete"}
                  <=> last'.op = "commit_journal")]_vars

\* C37: a failure to remove the file of an evicted page during
\* reclamation does not abort the put_page that set the reclamation off:
\* the new page is stored and the operation returns Ok.  The operation is
\* a write_at of a cached page, with a lease, whose put_page finds the
\* cache under pressure and a removal that fails.
C37_FailedEvictionDoesNotAbort ==
    [][\A n \in Pages, data \in DataValues, need \in BOOLEAN :
        (/\ WriteAt(n, data, "ok", need, TRUE)
         /\ files[n] # NoPage
         /\ get_lease.err = "Ok" /\ ~write_unsupported
         /\ page_size # NoSize /\ ~(n = 1 /\ data = 0)
         /\ reclaim_space(PagerValue(need, TRUE), max_cached_pages).err
                # "Ok")
            => (last'.err = "Ok" /\ files'[n] = data)]_vars

\* C32: when the commit_journal that a journal event triggers fails, the
\* journal operation is not carried out: no zero bytes are written, the
\* journal is neither truncated nor deleted, and the journal on the disk
\* is as before the call.
C32_FailedCommitLeavesJournal ==
    [][(CommitReturned /\ last'.err # "Ok") => journal' = journal]_vars

\* the deletion of a journal with the magic has failed in commit_journal
C32_Witness ==
    /\ last.op = "commit_journal" /\ last.err # "Ok"
    /\ last.event = "delete" /\ last.valid
    /\ journal = "valid"

\* C15: when LFSC answers the page request of a read with EPOSMISMATCH,
\* the read fails with the I/O error that carries the code
\* SQLITE_IOERR | (0x504F53 << 8) = 1347375882, and the cached pages, the
\* LRU index, the dirty set and Database.pos are as before the read.
C15_PosMismatchMutatesNothing ==
    [][(last'.op = "read_at" /\ last'.lfsc = "posmismatch")
          => /\ last'.err = "PosMismatch"
             /\ last'.code = 1347375882
             /\ UNCHANGED <<files, probationary, protected, dirty_pages,
                            pos>>]_vars

\* a read of a page that is not cached was answered with EPOSMISMATCH while
\* a page is cached and a page is dirty
C15_Witness ==
    /\ last.op = "read_at" /\ last.lfsc = "posmismatch"
    /\ last.err = "PosMismatch"
    /\ \E n \in Pages : has_page(n)
    /\ DirtySet # {}

\* ---------------------------------------------------------- lock claims
ConnsAbove(st, k) == {c \in Conns : st[c] > k}

SharedConns(st) == {c \in Conns : st[c] = LkShared}

LastIsAcquire == last.op \in {"acquire", "drop"}

\* another connection owned the writer slot when the last call was made
OtherWriterBefore ==
    \E d \in Conns \ {last.conn} : last.stateBefore[d] > LkShared

\* C5: at most one connection is above Shared (so never two Exclusive), and
\* a Shared connection asking for Reserved or Exclusive while another
\* connection owns the writer slot is refused and keeps its Shared state.
C5_SingleWriter ==
    /\ Cardinality(ConnsAbove(state, LkShared)) <= 1
    /\ (LastIsAcquire /\ last.from = LkShared
            /\ last.to \in {LkReserved, LkExclusive} /\ OtherWriterBefore)
        => (~last.ok /\ state[last.conn] = LkShared
            /\ readers = last.readersBefore /\ writer = last.writerBefore)

C5_Witness ==
    /\ LastIsAcquire /\ last.from = LkShared /\ last.to = LkReserved
    /\ OtherWriterBefore /\ ~last.ok
    /\ \E d \in Conns : state[d] = LkReserved

\* C6: a connection in None asking for Shared is granted iff no connection
\* is Pending or Exclusive (the writer slot is not exclusive-pending); a
\* refusal leaves its state None and the readers counter unchanged.
C6_SharedIffNotPending ==
    (LastIsAcquire /\ last.from = LkNone /\ last.to = LkShared)
    => LET blocked == \E d \in Conns :
                          last.stateBefore[d] \in {LkPending, LkExclusive}
       IN  /\ blocked <=> (last.writerBefore = WPending)
           /\ last.ok <=> ~blocked
           /\ blocked => (state[last.conn] = LkNone
                          /\ readers = last.readersBefore)
           /\ ~blocked => (state[last.conn] = LkShared
                           /\ readers = last.readersBefore + 1)

C6_Witness ==
    /\ LastIsAcquire /\ last.from = LkNone /\ last.to = LkShared
    /\ ~last.ok
    /\ \E d \in Conns : state[d] = LkPending

C6_WitnessReserved ==
    /\ LastIsAcquire /\ last.from = LkNone /\ last.to = LkShared
    /\ last.ok
    /\ \E d \in Conns : state[d] = LkReserved

\* C7: a request for Exclusive that is not refused gives Exclusive exactly
\* when no other connection holds Shared, and otherwise Pending with a
\* false result; whenever a connection is Exclusive, readers = 0.
C7_ExclusiveIffNoReaders ==
    /\ (LastIsAcquire /\ last.to = LkExclusive /\ ~OtherWriterBefore)
        => LET others == SharedConns(last.stateBefore) \ {last.conn}
           IN  /\ (others = {}) <=> (state[last.conn] = LkExclusive)
               /\ (others # {}) <=> (state[last.conn] = LkPending)
               /\ last.ok <=> (others = {})
               /\ readers = Cardinality(others)
    /\ (\E c \in Conns : state[c] = LkExclusive) => readers = 0

C7_Witness ==
    /\ LastIsAcquire /\ last.from = LkPending /\ last.to = LkExclusive
    /\ last.ok /\ state[last.conn] = LkExclusive

C7_WitnessPending ==
    /\ LastIsAcquire /\ last.from = LkReserved /\ last.to = LkExclusive
    /\ ~last.ok /\ state[last.conn] = LkPending /\ readers > 0

\* C8: readers counts the connections in Shared, the writer slot is taken
\* iff some connection is above Shared, and a release to None (explicit or
\* by drop) takes one reader off or frees the writer slot.
C8_CountersMatch ==
    /\ readers = Cardinality(SharedConns(state))
    /\ (writer # WNone) <=> (ConnsAbove(state, LkShared) # {})
    /\ (LastIsAcquire /\ last.to = LkNone)
        => /\ state[last.conn] = LkNone
           /\ last.from = LkShared
               => (readers = last.readersBefore - 1 /\ readers >= 0
                   /\ writer = last.writerBefore)
           /\ last.from > LkShared
               => (writer = WNone /\ readers = last.readersBefore)

C8_Witness ==
    /\ last.op = "drop" /\ last.from = LkExclusive
    /\ writer = WNone /\ readers = 0

C8_WitnessReader ==
    /\ last.op = "drop" /\ last.from = LkShared
    /\ readers = 1

\* C39: while a handle is Pending no other handle becomes a reader and
\* the readers counter does not grow through another handle; and if
\* every handle that holds Shared eventually gives it up, a Pending
\* handle that keeps asking for Exclusive eventually gets it.
C39_WriterProgress ==
    /\ [][\A d \in Conns : state[d] = LkPending =>
            /\ \A c \in Conns \ {d} :
                    state'[c] = LkShared => state[c] = LkShared
            /\ state'[d] = state[d] => readers' <= readers]_vars
    /\ (\A c \in Conns : []<>(state[c] # LkShared))
            => \A d \in Conns :
                    (state[d] = LkPending) ~> (state[d] = LkExclusive)

\* a Pending handle was granted Exclusive after the last reader left
C39_Witness ==
    /\ last.op = "acquire" /\ last.from = LkPending /\ last.ok
    /\ state[last.conn] = LkExclusive
    /\ \E c \in Conns : last.stateBefore[c] = LkNone /\ c # last.conn

====
